---------------------------- MODULE Spec2Model ----------------------------
(***************************************************************************)
(* A model of the zone resolution and quantity aggregation engine of the   *)
(* DwgExtractPlugin (VISJSONNET command).                                  *)
(*                                                                         *)
(* Representation choices                                                  *)
(*   - A string is a sequence of character codes (ASCII), so that case     *)
(*     folding, trimming and ordinal comparison are computed, not assumed. *)
(*   - A double is a fixed-point integer.  Coordinates are in half drawing *)
(*     units (so that midpoints and bounding-box centres are exact), and   *)
(*     measurement samples are in half feet (so that the mean of two       *)
(*     samples is exact).                                                  *)
(*   - A Dictionary or List is a sequence in insertion order.              *)
(***************************************************************************)
EXTENDS Integers, Sequences, FiniteSets, TLC

(***************************************************************************)
(* Bounds of the model.                                                    *)
(***************************************************************************)
MaxInserts == 3

MaxSamples == 4

MaxSampleValue == 5

MaxSide == 4

(***************************************************************************)
(* Strings.                                                                *)
(***************************************************************************)
EmptyStr == << >>

\* char.ToUpperInvariant on ASCII: 'a'..'z' (97..122) map to 'A'..'Z'.
ToUpperChar(c) == IF c >= 97 /\ c <= 122 THEN c - 32 ELSE c

ToUpper(s) == [i \in 1..Len(s) |-> ToUpperChar(s[i])]

\* char.IsWhiteSpace on ASCII: space and the controls 9..13.
IsWhiteSpaceChar(c) == c = 32 \/ (c >= 9 /\ c <= 13)

IsNullOrWhiteSpace(s) == \A i \in 1..Len(s) : IsWhiteSpaceChar(s[i])

RECURSIVE TrimStart(_)
TrimStart(s) ==
    IF s = << >> THEN s
    ELSE IF IsWhiteSpaceChar(Head(s)) THEN TrimStart(Tail(s)) ELSE s

RECURSIVE TrimEnd(_)
TrimEnd(s) ==
    IF s = << >> THEN s
    ELSE IF IsWhiteSpaceChar(s[Len(s)]) THEN TrimEnd(SubSeq(s, 1, Len(s) - 1))
    ELSE s

Trim(s) == TrimEnd(TrimStart(s))

\* string.Compare(a, b, StringComparison.Ordinal): -1, 0 or 1.
RECURSIVE CompareOrdinal(_, _)
CompareOrdinal(a, b) ==
    IF a = << >> /\ b = << >> THEN 0
    ELSE IF a = << >> THEN -1
    ELSE IF b = << >> THEN 1
    ELSE IF Head(a) < Head(b) THEN -1
    ELSE IF Head(a) > Head(b) THEN 1
    ELSE CompareOrdinal(Tail(a), Tail(b))

\* StringComparer.OrdinalIgnoreCase.Compare
CompareIgnoreCase(a, b) == CompareOrdinal(ToUpper(a), ToUpper(b))

\* StringComparer.OrdinalIgnoreCase.Equals
EqualsIgnoreCase(a, b) == ToUpper(a) = ToUpper(b)

(***************************************************************************)
(* Geometry.  A point is <<x, y>>; a polygon is a sequence of points.      *)
(***************************************************************************)
Pt(x, y) == <<x, y>>

\* (a + b) * 0.5 on coordinates whose sum is even (whole drawing units).
Mid(a, b) == (a + b) \div 2

\* The test "x <= xInt".
XLeftOfEdgeOrOn(x, y, a, b) ==
    LET d   == b[2] - a[2]
        lhs == (x - a[1]) * d
        rhs == (b[1] - a[1]) * (y - a[2])
    IN  IF d > 0 THEN lhs <= rhs ELSE lhs >= rhs

\* The test "x < xInt" of PointInPolygon, where
\*     t    = (y - a.Y) / (b.Y - a.Y + 1e-12)
\*     xInt = a.X + (b.X - a.X) * t
\* and a.Y # b.Y.  With d = b.Y - a.Y, the epsilon makes the denominator
\* d + e for an e smaller than any coordinate step, so the comparison is
\* the one of the cross products, and is decided by the sign of
\* (x - a.X) * e where the cross products are equal.
XLeftOfEdge(x, y, a, b) ==
    LET d   == b[2] - a[2]
        lhs == (x - a[1]) * d
        rhs == (b[1] - a[1]) * (y - a[2])
    IN  IF d > 0 THEN lhs < rhs \/ (lhs = rhs /\ x < a[1])
        ELSE lhs > rhs \/ (lhs = rhs /\ x > a[1])

\* One iteration of the loop of PointInPolygon: the new value of "inside".
EdgeToggle(pt, poly, i, inside) ==
    LET n    == Len(poly)
        a    == poly[i]
        b    == poly[(i % n) + 1]
        cond == (a[2] > pt[2]) # (b[2] > pt[2])
    IN  IF cond /\ XLeftOfEdge(pt[1], pt[2], a, b) THEN ~inside ELSE inside

RECURSIVE PipLoop(_, _, _, _)
PipLoop(pt, poly, i, inside) ==
    IF i > Len(poly) THEN inside
    ELSE PipLoop(pt, poly, i + 1, EdgeToggle(pt, poly, i, inside))

\* The loop started at the second edge.
PointInPolygonFromSecondEdge(pt, poly) ==
    IF Len(poly) < 3 THEN FALSE ELSE PipLoop(pt, poly, 2, FALSE)

PointInPolygon(pt, poly) ==
    IF Len(poly) < 3 THEN FALSE ELSE PipLoop(pt, poly, 1, FALSE)

\* A lookup in which the last zone that contains the point wins.
RECURSIVE ZoneForPointLast(_, _)
ZoneForPointLast(pt, zones) ==
    IF zones = << >> THEN EmptyStr
    ELSE LET z == zones[Len(zones)]
         IN  IF Len(z.Poly) >= 3 /\ PointInPolygon(pt, z.Poly) THEN z.Name
             ELSE ZoneForPointLast(pt, SubSeq(zones, 1, Len(zones) - 1))

\* A PlannerZone is [Name |-> string, Poly |-> polygon].
RECURSIVE ZoneForPoint(_, _)
ZoneForPoint(pt, zones) ==
    IF zones = << >> THEN EmptyStr
    ELSE LET z == Head(zones)
         IN  IF Len(z.Poly) >= 3 /\ PointInPolygon(pt, z.Poly) THEN z.Name
             ELSE ZoneForPoint(pt, Tail(zones))

\* Extents3d? : NoExtents when GeometricExtents throws or is NaN, otherwise
\* [has |-> TRUE, min |-> point, max |-> point].
NoExtents == [has |-> FALSE, min |-> <<0, 0>>, max |-> <<0, 0>>]

Extents(lo, hi) == [has |-> TRUE, min |-> lo, max |-> hi]

TryGetGeometricExtents(ent) == ent.ext

ExtentsCentre(e) == Pt(Mid(e.min[1], e.max[1]), Mid(e.min[2], e.max[2]))

\* A BlockReference is [name, layer, pos, ext, dyn, vis, len, wid].
ResolveZoneForBlockRef(br, zones) ==
    IF zones = << >> THEN EmptyStr
    ELSE LET z1 == ZoneForPoint(br.pos, zones)
         IN  IF ~IsNullOrWhiteSpace(z1) THEN z1
             ELSE LET ext == TryGetGeometricExtents(br)
                  IN  IF ext.has
                      THEN LET z2 == ZoneForPoint(ExtentsCentre(ext), zones)
                           IN  IF ~IsNullOrWhiteSpace(z2) THEN z2 ELSE EmptyStr
                      ELSE EmptyStr

\* A non-block entity is [kind, p1, p2, centre, ext]: p1, p2 the end points
\* of a Line, centre the centre of a Circle or an Arc.
EntityPoint(ent) ==
    IF ent.kind = "Line" THEN Pt(Mid(ent.p1[1], ent.p2[1]), Mid(ent.p1[2], ent.p2[2]))
    ELSE IF ent.kind = "Circle" THEN ent.centre
    ELSE IF ent.kind = "Arc" THEN ent.centre
    ELSE ExtentsCentre(TryGetGeometricExtents(ent))

ResolveZoneForEntity(ent, zones) ==
    IF zones = << >> THEN EmptyStr
    ELSE IF ent.kind \notin {"Line", "Circle", "Arc"}
            /\ ~TryGetGeometricExtents(ent).has THEN EmptyStr
    ELSE ZoneForPoint(EntityPoint(ent), zones)

(***************************************************************************)
(* Median.  Samples are in half feet and even (whole feet), so that        *)
(* 0.5 * (a + b) is exact.                                                 *)
(***************************************************************************)
\* List<double>.Sort(): ascending.
RECURSIVE InsertAscending(_, _)
InsertAscending(x, sorted) ==
    IF sorted = << >> THEN <<x>>
    ELSE IF x <= Head(sorted) THEN <<x>> \o sorted
    ELSE <<Head(sorted)>> \o InsertAscending(x, Tail(sorted))

RECURSIVE SortAscending(_)
SortAscending(xs) ==
    IF xs = << >> THEN << >>
    ELSE InsertAscending(Head(xs), SortAscending(Tail(xs)))

MedianUnsorted(xs) ==
    IF xs = << >> THEN 0
    ELSE LET n == Len(xs)
         IN  IF n % 2 = 1 THEN xs[(n \div 2) + 1]
             ELSE (xs[n \div 2] + xs[(n \div 2) + 1]) \div 2

\* xs[k] of the code (0-based) is ys[k + 1] here.
Median(xs) ==
    IF xs = << >> THEN 0
    ELSE LET ys == SortAscending(xs)
             n  == Len(ys)
         IN  IF n % 2 = 1 THEN ys[(n \div 2) + 1]
             ELSE (ys[n \div 2] + ys[(n \div 2) + 1]) \div 2

(***************************************************************************)
(* Rectangle solver.  P is in units u = 1e-5 ft and A in u^2, so that the  *)
(* tolerance 1e-9 of the code is RectTol = 10 u^2.  With S = P / 2 and     *)
(* D = S * S - 4 * A, the operator works on 4 * D = P * P - 16 * A and     *)
(* returns L and W in quarter units: L4 = 4 * L, W4 = 4 * W.  Math.Sqrt is *)
(* exact on the inputs drawn, for which 4 * D is a perfect square.         *)
(***************************************************************************)
RectTol == 10

RECURSIVE SqrtFrom(_, _)
SqrtFrom(n, r) == IF (r + 1) * (r + 1) > n THEN r ELSE SqrtFrom(n, r + 1)

Sqrt(n) == SqrtFrom(n, 0)

IsSquare(n) == n >= 0 /\ Sqrt(n) * Sqrt(n) = n

RectZero == [L4 |-> 0, W4 |-> 0]

SolveRectNoTolerance(P, A) ==
    IF P <= 0 \/ A <= 0 THEN RectZero
    ELSE LET D4 == P * P - 16 * A
         IN  IF D4 < 0 THEN RectZero
             ELSE LET root2 == Sqrt(D4)
                      a4    == P + root2
                      b4    == P - root2
                  IN  IF a4 <= 0 \/ b4 <= 0 THEN RectZero
                      ELSE IF a4 >= b4 THEN [L4 |-> a4, W4 |-> b4]
                      ELSE [L4 |-> b4, W4 |-> a4]

SolveRectSwapped(P, A) ==
    IF P <= 0 \/ A <= 0 THEN RectZero
    ELSE LET D4 == P * P - 16 * A
         IN  IF D4 < -4 * RectTol THEN RectZero
             ELSE LET root2 == Sqrt(IF D4 < 0 THEN 0 ELSE D4)
                      a4    == P + root2
                      b4    == P - root2
                  IN  IF a4 <= 0 \/ b4 <= 0 THEN RectZero
                      ELSE [L4 |-> b4, W4 |-> a4]

SolveRectDimsFromPerimeterArea(P, A) ==
    IF P <= 0 \/ A <= 0 THEN RectZero
    ELSE LET D4 == P * P - 16 * A
         IN  IF D4 < -4 * RectTol THEN RectZero
             ELSE LET root2 == Sqrt(IF D4 < 0 THEN 0 ELSE D4)
                      a4    == P + root2
                      b4    == P - root2
                  IN  IF a4 <= 0 \/ b4 <= 0 THEN RectZero
                      ELSE IF a4 >= b4 THEN [L4 |-> a4, W4 |-> b4]
                      ELSE [L4 |-> b4, W4 |-> a4]

(***************************************************************************)
(* Unit converter.  A factor is the literal of the code: the decimal       *)
(* digits of its mantissa, the number of decimal places, and a divisor     *)
(* (1.0 / 12.0 has mantissa 1, no decimal place and divisor 12).           *)
(***************************************************************************)
Factor(mant, places, div) == [mant |-> mant, places |-> places, div |-> div]

MmDigits == <<3, 2, 8, 0, 8, 3, 9, 8, 9, 5, 0, 1, 3, 1, 2, 3>>

One == Factor(<<1>>, 0, 1)

\* The UnitsValue enumeration of the host.
UnitsValue ==
    {"Undefined", "Inches", "Feet", "Miles", "Millimeters", "Centimeters",
     "Meters", "Kilometers", "Microinches", "Mils", "Yards", "Angstroms",
     "Nanometers", "Microns", "Decimeters", "Dekameters", "Hectometers",
     "Gigameters", "Astronomical", "LightYears", "Parsecs"}

GetScaleToFeetStrict(u, readFails) ==
    IF readFails THEN One
    ELSE CASE u = "Feet"        -> One
           [] u = "Inches"      -> Factor(<<1>>, 0, 12)
           [] u = "Millimeters" -> Factor(MmDigits, 18, 1)
           [] u = "Centimeters" -> Factor(MmDigits, 17, 1)
           [] u = "Meters"      -> Factor(MmDigits, 15, 1)
           [] u = "Kilometers"  -> Factor(MmDigits, 12, 1)
           [] u = "Yards"       -> Factor(<<3>>, 0, 1)
           [] u = "Miles"       -> Factor(<<5, 2, 8, 0>>, 0, 1)
           [] u = "Undefined"   -> One
           [] OTHER             -> Factor(<<0>>, 0, 1)

\* db.Insunits is read inside the try: readFails is the read throwing.
GetScaleToFeet(u, readFails) ==
    IF readFails THEN One
    ELSE CASE u = "Feet"        -> One
           [] u = "Inches"      -> Factor(<<1>>, 0, 12)
           [] u = "Millimeters" -> Factor(MmDigits, 18, 1)
           [] u = "Centimeters" -> Factor(MmDigits, 17, 1)
           [] u = "Meters"      -> Factor(MmDigits, 15, 1)
           [] u = "Kilometers"  -> Factor(MmDigits, 12, 1)
           [] u = "Yards"       -> Factor(<<3>>, 0, 1)
           [] u = "Miles"       -> Factor(<<5, 2, 8, 0>>, 0, 1)
           [] u = "Undefined"   -> One
           [] OTHER             -> One

(***************************************************************************)
(* Aggregation: AllAgg and VisAgg groups, and the sheet-like rows.         *)
(***************************************************************************)
StrPlanner == <<80, 76, 65, 78, 78, 69, 82>>                \* "PLANNER"

StrLooseFurniture ==                                        \* "Loose Furniture"
    <<76, 111, 111, 115, 101, 32, 70, 117, 114, 110, 105, 116, 117, 114, 101>>

StrUnmarkedArea ==                                          \* "Unmarked Area"
    <<85, 110, 109, 97, 114, 107, 101, 100, 32, 65, 114, 101, 97>>

StrMisc == <<109, 105, 115, 99>>                            \* "misc"

StrBarBar == <<124, 124>>                                   \* "||"

IsPlannerLayer(layer) == EqualsIgnoreCase(Trim(layer), StrPlanner)

NormalizeZone(zone) ==
    LET z == Trim(zone)
    IN  IF Len(z) = 0 THEN StrMisc
        ELSE IF EqualsIgnoreCase(z, StrUnmarkedArea) THEN StrMisc
        ELSE z

PrettyProductName(categoryLike) ==
    LET s == Trim(categoryLike)
    IN  IF Len(s) = 0 THEN EmptyStr
        ELSE IF EqualsIgnoreCase(s, StrPlanner) THEN StrLooseFurniture
        ELSE s

\* Dictionary<string, _>(StringComparer.OrdinalIgnoreCase): a sequence of
\* entries [key |-> string, ...] in insertion order; the index of the entry
\* of a key, or 0.
RECURSIVE IndexOfKeyFrom(_, _, _)
IndexOfKeyFrom(dict, key, i) ==
    IF i > Len(dict) THEN 0
    ELSE IF EqualsIgnoreCase(dict[i].key, key) THEN i
    ELSE IndexOfKeyFrom(dict, key, i + 1)

\* The lookup of a dictionary built without the comparer.
RECURSIVE IndexOfKeyOrdinalFrom(_, _, _)
IndexOfKeyOrdinalFrom(dict, key, i) ==
    IF i > Len(dict) THEN 0
    ELSE IF dict[i].key = key THEN i
    ELSE IndexOfKeyOrdinalFrom(dict, key, i + 1)

IndexOfKeyOrdinal(dict, key) == IndexOfKeyOrdinalFrom(dict, key, 1)

IndexOfKey(dict, key) == IndexOfKeyFrom(dict, key, 1)

\* prev = 0; TryGetValue(zoneName, out prev); ZoneCounts[zoneName] = prev + 1
IncrementCount(counts, zoneName) ==
    LET i == IndexOfKey(counts, zoneName)
    IN  IF i = 0 THEN Append(counts, [key |-> zoneName, n |-> 1])
        ELSE [counts EXCEPT ![i].n = @ + 1]

AppendIfPositive(xs, v) == IF v > 0 THEN Append(xs, v) ELSE xs

NewAllAgg(baseName) ==
    [key |-> baseName, BlockName |-> baseName, TotalCount |-> 0,
     DynamicCount |-> 0, LenFts |-> << >>, WidFts |-> << >>,
     ZoneCounts |-> << >>, CategoryLike |-> EmptyStr,
     LengthFt |-> 0, WidthFt |-> 0]

\* The body of the "ALL aggregation" block for one placement, in DwgExtract.cs.
AccumulateAllPlugin(a, br, zoneName) ==
    [a EXCEPT
       !.TotalCount   = @ + 1,
       !.DynamicCount = IF br.dyn THEN @ + 1 ELSE @,
       !.LenFts       = AppendIfPositive(@, br.len),
       !.WidFts       = AppendIfPositive(@, br.wid),
       !.ZoneCounts   = IF ~IsNullOrWhiteSpace(zoneName)
                        THEN IncrementCount(@, zoneName) ELSE @,
       !.CategoryLike = IF ~IsNullOrWhiteSpace(zoneName) THEN StrPlanner
                        ELSE IF IsNullOrWhiteSpace(@) THEN br.layer ELSE @]

\* The same block in the later variant, where zoneName went through
\* NormalizeZone and the category is never overridden.
AccumulateAllHeadless(a, br, zoneName) ==
    [a EXCEPT
       !.TotalCount   = @ + 1,
       !.DynamicCount = IF br.dyn THEN @ + 1 ELSE @,
       !.LenFts       = AppendIfPositive(@, br.len),
       !.WidFts       = AppendIfPositive(@, br.wid),
       !.ZoneCounts   = IF ~IsNullOrWhiteSpace(zoneName)
                        THEN IncrementCount(@, zoneName) ELSE @,
       !.CategoryLike = IF IsNullOrWhiteSpace(@) THEN br.layer ELSE @]

\* allGrouped after one placement.
UpdateAll(all, br, zoneName, headless) ==
    LET i    == IndexOfKey(all, br.name)
        base == IF i = 0 THEN Append(all, NewAllAgg(br.name)) ELSE all
        j    == IF i = 0 THEN Len(base) ELSE i
    IN  [base EXCEPT ![j] = IF headless
                            THEN AccumulateAllHeadless(@, br, zoneName)
                            ELSE AccumulateAllPlugin(@, br, zoneName)]

GetVisibilityState(br) == IF ~br.dyn THEN EmptyStr ELSE br.vis

NewVisAgg(key, baseName, vis) ==
    [key |-> key, TableName |-> baseName, Visibility |-> vis,
     TableCount |-> 0, LenFts |-> << >>, WidFts |-> << >>,
     LengthFt |-> 0, WidthFt |-> 0]

\* visGrouped when a group counted itself, once, and not its placements.
UpdateVisCountingGroups(visG, br, vis) ==
    LET key  == br.name \o StrBarBar \o vis
        i    == IndexOfKey(visG, key)
        base == IF i = 0 THEN Append(visG, NewVisAgg(key, br.name, vis)) ELSE visG
        j    == IF i = 0 THEN Len(base) ELSE i
    IN  [base EXCEPT ![j] = [@ EXCEPT
                               !.TableCount = 1,
                               !.LenFts     = AppendIfPositive(@, br.len),
                               !.WidFts     = AppendIfPositive(@, br.wid)]]

\* visGrouped after one placement whose visibility state vis is not blank.
UpdateVis(visG, br, vis) ==
    LET key  == br.name \o StrBarBar \o vis
        i    == IndexOfKey(visG, key)
        base == IF i = 0 THEN Append(visG, NewVisAgg(key, br.name, vis)) ELSE visG
        j    == IF i = 0 THEN Len(base) ELSE i
    IN  [base EXCEPT ![j] = [@ EXCEPT
                               !.TableCount = @ + 1,
                               !.LenFts     = AppendIfPositive(@, br.len),
                               !.WidFts     = AppendIfPositive(@, br.wid)]]

\* Median sorts the list it is given in place.
FinalizeGroup(g) ==
    [g EXCEPT !.LengthFt = Median(g.LenFts),
              !.WidthFt  = Median(g.WidFts),
              !.LenFts   = SortAscending(@),
              !.WidFts   = SortAscending(@)]

SheetRow(it, zone, qty) ==
    [Product |-> PrettyProductName(it.CategoryLike), BoqName |-> it.BlockName,
     Zone |-> zone, QtyValue |-> qty,
     LengthFt |-> it.LengthFt, WidthFt |-> it.WidthFt]

\* OrderBy(Product).ThenBy(BoqName).ThenBy(Zone), OrdinalIgnoreCase.
RowCompareNameZone(r1, r2) ==
    LET n == CompareIgnoreCase(r1.BoqName, r2.BoqName)
    IN  IF n # 0 THEN n ELSE CompareIgnoreCase(r1.Zone, r2.Zone)

RowCompare(r1, r2) ==
    LET p == CompareIgnoreCase(r1.Product, r2.Product)
        n == CompareIgnoreCase(r1.BoqName, r2.BoqName)
    IN  IF p # 0 THEN p
        ELSE IF n # 0 THEN n
        ELSE CompareIgnoreCase(r1.Zone, r2.Zone)

\* OrderBy is a stable sort: a row goes after the rows it does not precede.
RECURSIVE InsertRow(_, _)
InsertRow(r, sorted) ==
    IF sorted = << >> THEN <<r>>
    ELSE IF RowCompare(r, Head(sorted)) < 0 THEN <<r>> \o sorted
    ELSE <<Head(sorted)>> \o InsertRow(r, Tail(sorted))

RECURSIVE OrderRowsFrom(_, _)
OrderRowsFrom(rows, sorted) ==
    IF rows = << >> THEN sorted
    ELSE OrderRowsFrom(Tail(rows), InsertRow(Head(rows), sorted))

OrderRows(rows) == OrderRowsFrom(rows, << >>)

\* The rows of one group, DwgExtract.cs.
RECURSIVE ZoneRowsPlugin(_, _)
ZoneRowsPlugin(it, counts) ==
    IF counts = << >> THEN << >>
    ELSE LET kv == Head(counts)
         IN  (IF IsNullOrWhiteSpace(kv.key) \/ kv.n <= 0 THEN << >>
              ELSE <<SheetRow(it, kv.key, kv.n)>>)
             \o ZoneRowsPlugin(it, Tail(counts))

GroupRowsTotalOnly(it) == <<SheetRow(it, StrUnmarkedArea, it.TotalCount)>>

GroupRowsPlugin(it) ==
    IF Len(it.ZoneCounts) > 0 THEN ZoneRowsPlugin(it, it.ZoneCounts)
    ELSE <<SheetRow(it, StrUnmarkedArea, it.TotalCount)>>

\* The rows of one group, later variant.
RECURSIVE ZoneRowsHeadless(_, _)
ZoneRowsHeadless(it, counts) ==
    IF counts = << >> THEN << >>
    ELSE LET kv == Head(counts)
         IN  (IF kv.n <= 0 THEN << >>
              ELSE <<SheetRow(it, NormalizeZone(kv.key), kv.n)>>)
             \o ZoneRowsHeadless(it, Tail(counts))

GroupRowsHeadless(it) ==
    IF Len(it.ZoneCounts) > 0 THEN ZoneRowsHeadless(it, it.ZoneCounts)
    ELSE <<SheetRow(it, StrMisc, it.TotalCount)>>

RECURSIVE AllGroupRows(_, _)
AllGroupRows(items, headless) ==
    IF items = << >> THEN << >>
    ELSE (IF headless THEN GroupRowsHeadless(Head(items))
          ELSE GroupRowsPlugin(Head(items)))
         \o AllGroupRows(Tail(items), headless)

BuildSheetLikeRowsUnsorted(items, headless) == AllGroupRows(items, headless)

BuildSheetLikeRows(items, headless) == OrderRows(AllGroupRows(items, headless))

(***************************************************************************)
(* The drawings the model is run on.                                       *)
(***************************************************************************)
\* The rectangle a PLANNER placement contributes: its bounding box, from
\* the min corner counter-clockwise.
RectPoly(minX, minY, maxX, maxY) ==
    <<Pt(minX, minY), Pt(maxX, minY), Pt(maxX, maxY), Pt(minX, maxY)>>

StrConf == <<67, 111, 110, 102>>                            \* "Conf"

StrCONF == <<67, 79, 78, 70>>                               \* "CONF"

StrLab == <<76, 97, 98>>                                    \* "Lab"

StrTa == <<84, 97>>                                         \* "Ta"

StrTA == <<84, 65>>                                         \* "TA"

StrCh == <<67, 104>>                                        \* "Ch"

StrFurn == <<70, 117, 114, 110>>                            \* "Furn"

StrWall == <<87, 97, 108, 108>>                             \* "Wall"

StrPlannerPadded == <<32, 112, 108, 97, 110, 110, 101, 114>> \* " planner"

StrV1 == <<86, 49>>                                         \* "V1"

Strv1 == <<118, 49>>                                        \* "v1"

ZoneConf == [Name |-> StrConf, Poly |-> RectPoly(0, 0, 8, 8)]

ZoneCONF == [Name |-> StrCONF, Poly |-> RectPoly(12, 0, 20, 8)]

ZoneLab == [Name |-> StrLab, Poly |-> RectPoly(12, 0, 20, 8)]

\* The zone lists CollectPlannerZones hands to the pass.
ZoneLists == {<< >>, <<ZoneConf, ZoneCONF>>, <<ZoneConf, ZoneLab>>}

PtInConf == Pt(2, 2)

PtInSecond == Pt(14, 2)

PtOutside == Pt(10, 2)

BR(name, layer, pos, ext, dyn, vis, len, wid) ==
    [name |-> name, layer |-> layer, pos |-> pos, ext |-> ext, dyn |-> dyn,
     vis |-> vis, len |-> len, wid |-> wid, attrs |-> << >>]

Abs(x) == IF x < 0 THEN -x ELSE x

\* A size that keeps the axes: x as length, y as width.
GetBlockSizeFeetByAxis(has, dx, dy, sx, sy, unit) ==
    IF ~has THEN [len |-> 0, wid |-> 0]
    ELSE [len |-> Abs(dx) * Abs(sx) * unit, wid |-> Abs(dy) * Abs(sy) * unit]

\* A size that applies the scale factors with their sign.
GetBlockSizeFeetSigned(has, dx, dy, sx, sy, unit) ==
    IF ~has THEN [len |-> 0, wid |-> 0]
    ELSE LET x == Abs(dx) * sx * unit
             y == Abs(dy) * sy * unit
         IN  IF x >= y THEN [len |-> x, wid |-> y] ELSE [len |-> y, wid |-> x]

\* GetBlockSizeFeet, on the extents (dx, dy) of the union of the block
\* definition's entities, if any of them has extents, the scale factors
\* of the placement and the unit factor.
GetBlockSizeFeet(has, dx, dy, sx, sy, unit) ==
    IF ~has THEN [len |-> 0, wid |-> 0]
    ELSE LET x == Abs(dx) * Abs(sx) * unit
             y == Abs(dy) * Abs(sy) * unit
         IN  IF x >= y THEN [len |-> x, wid |-> y] ELSE [len |-> y, wid |-> x]

\* The loop over the entities of the block definition: ext is the first
\* extents read, grown by AddExtents to hold every later one; an entity
\* whose GeometricExtents throws is passed over.
RECURSIVE UnionExtents(_, _)
UnionExtents(children, ext) ==
    IF children = << >> THEN ext
    ELSE LET e == Head(children)
         IN  UnionExtents(Tail(children),
                 IF ~e.has THEN ext
                 ELSE IF ~ext.has THEN e
                 ELSE Extents(Pt(IF e.min[1] < ext.min[1] THEN e.min[1] ELSE ext.min[1],
                                 IF e.min[2] < ext.min[2] THEN e.min[2] ELSE ext.min[2]),
                              Pt(IF e.max[1] > ext.max[1] THEN e.max[1] ELSE ext.max[1],
                                 IF e.max[2] > ext.max[2] THEN e.max[2] ELSE ext.max[2])))

\* GetBlockSizeFeet on a placement of a block definition with the given
\* entities.
BlockSizeFeetOf(children, sx, sy, unit) ==
    LET ext == UnionExtents(children, NoExtents)
    IN  GetBlockSizeFeet(ext.has, ext.max[1] - ext.min[1], ext.max[2] - ext.min[2],
                         sx, sy, unit)

\* A placement, with the size GetBlockSizeFeet measures for it in a
\* drawing whose unit is the half foot.
Placed(name, layer, pos, ext, dyn, vis, has, dx, dy, sx, sy) ==
    LET size == GetBlockSizeFeet(has, dx, dy, sx, sy, 1)
    IN  BR(name, layer, pos, ext, dyn, vis, size.len, size.wid)

\* The placements a drawing is made of.
BlockRefs ==
    { Placed(StrTa, StrFurn, PtInConf, NoExtents, FALSE, EmptyStr, TRUE, 4, 8, 1, 1),
      Placed(StrTA, StrFurn, PtInSecond, NoExtents, FALSE, EmptyStr, TRUE, 4, 4, 1, 1),
      Placed(StrTa, StrFurn, PtOutside, NoExtents, FALSE, EmptyStr, TRUE, 2, 1, 2, -2),
      Placed(StrCh, StrWall, PtOutside, NoExtents, FALSE, EmptyStr, TRUE, 0, 2, 1, 1),
      Placed(StrCh, StrFurn, PtOutside, Extents(Pt(0, 0), Pt(8, 4)), FALSE, EmptyStr,
             TRUE, 2, 4, -2, 1),
      Placed(StrTa, StrFurn, PtInConf, NoExtents, TRUE, StrV1, TRUE, 6, 4, 1, 1),
      Placed(StrTA, StrFurn, PtOutside, NoExtents, TRUE, Strv1, TRUE, 2, 8, 1, 1),
      Placed(StrTa, StrFurn, PtOutside, NoExtents, TRUE, EmptyStr, TRUE, 4, 4, 1, 1),
      Placed(StrConf, StrPlannerPadded, PtInConf, Extents(Pt(0, 0), Pt(8, 8)), FALSE,
             EmptyStr, FALSE, 0, 0, 1, 1) }

(***************************************************************************)
(* CollectPlannerZones.  Model space is read three times, once for each    *)
(* kind of entity, so it is given as three lists, each in enumeration      *)
(* order: the texts, the placements, the polylines.                        *)
(***************************************************************************)
DBText(layer, text, pos) == [kind |-> "DBText", layer |-> layer, text |-> text, pos |-> pos]

MText(layer, text, pos) == [kind |-> "MText", layer |-> layer, text |-> text, pos |-> pos]

PolylineLoop(layer, closed, pts) == [layer |-> layer, closed |-> closed, pts |-> pts]

\* string.IndexOf(sub, OrdinalIgnoreCase), from 1; 0 when absent.
IndexOfIgnoreCase(str, sub) ==
    LET hits == {i \in 1..(Len(str) - Len(sub) + 1) :
                    EqualsIgnoreCase(SubSeq(str, i, i + Len(sub) - 1), sub)}
    IN  IF hits = {} THEN 0 ELSE CHOOSE i \in hits : \A j \in hits : i <= j

CutAt(str, sub) ==
    LET nl == IndexOfIgnoreCase(str, sub)
    IN  IF nl > 0 THEN SubSeq(str, 1, nl - 1) ELSE str

StrParagraph == <<92, 80>>                                   \* "\P"

StrNewline == <<10>>

\* The label a text entity gives, as a list of zero or one label.
LabelOf(t) ==
    IF t.kind = "DBText"
    THEN LET txt == Trim(t.text)
         IN  IF Len(txt) > 0 THEN <<[txt |-> txt, pos |-> t.pos]>> ELSE << >>
    ELSE LET raw   == Trim(t.text)
             first == Trim(CutAt(CutAt(raw, StrParagraph), StrNewline))
         IN  IF Len(raw) > 0 /\ Len(first) > 0
             THEN <<[txt |-> first, pos |-> t.pos]>> ELSE << >>

RECURSIVE CollectLabels(_, _)
CollectLabels(texts, headless) ==
    IF texts = << >> THEN << >>
    ELSE (IF headless /\ ~IsPlannerLayer(Head(texts).layer) THEN << >>
          ELSE LabelOf(Head(texts)))
         \o CollectLabels(Tail(texts), headless)

PlannerNameTags ==
    { <<78, 65, 77, 69>>, <<82, 79, 79, 77>>, <<90, 79, 78, 69>>,
      <<76, 65, 66, 69, 76>>, <<84, 73, 84, 76, 69>> }

RECURSIVE TryGetPlannerNameFromAttributes(_)
TryGetPlannerNameFromAttributes(attrs) ==
    IF attrs = << >> THEN EmptyStr
    ELSE LET tag == Trim(Head(attrs).tag)
             txt == Trim(Head(attrs).text)
         IN  IF /\ Len(tag) > 0
                /\ \E c \in PlannerNameTags : EqualsIgnoreCase(c, tag)
                /\ Len(txt) > 0
             THEN txt
             ELSE TryGetPlannerNameFromAttributes(Tail(attrs))

\* A) the zones of the PLANNER placements: their bounding boxes.
RECURSIVE InsertZones(_)
InsertZones(inserts) ==
    IF inserts = << >> THEN << >>
    ELSE LET br   == Head(inserts)
             ext  == TryGetGeometricExtents(br)
             attr == TryGetPlannerNameFromAttributes(br.attrs)
             name == IF IsNullOrWhiteSpace(attr) THEN br.name ELSE attr
         IN  (IF IsPlannerLayer(br.layer) /\ ext.has
              THEN <<[Name |-> Trim(name),
                      Poly |-> RectPoly(ext.min[1], ext.min[2], ext.max[1], ext.max[2])]>>
              ELSE << >>)
             \o InsertZones(Tail(inserts))

\* NormalizePoly: the first loop, on the points not yet read.
RECURSIVE Cleaned(_, _)
Cleaned(cleaned, rest) ==
    IF rest = << >> THEN cleaned
    ELSE LET p == Head(rest)
         IN  IF cleaned = << >> \/ cleaned[Len(cleaned)] # p
             THEN Cleaned(Append(cleaned, p), Tail(rest))
             ELSE Cleaned(cleaned, Tail(rest))

NormalizePoly(poly) ==
    LET cleaned == Cleaned(<< >>, poly)
    IN  IF Len(cleaned) > 2 /\ cleaned[1] = cleaned[Len(cleaned)]
        THEN SubSeq(cleaned, 1, Len(cleaned) - 1)
        ELSE cleaned

\* B) the loops of the closed PLANNER polylines, not yet named.
RECURSIVE PolylineZones(_)
PolylineZones(polylines) ==
    IF polylines = << >> THEN << >>
    ELSE LET pl  == Head(polylines)
             pts == NormalizePoly(pl.pts)
         IN  (IF /\ IsPlannerLayer(pl.layer)
                 /\ pl.closed
                 /\ Len(pl.pts) >= 3
                 /\ Len(pts) >= 3
              THEN <<[Name |-> EmptyStr, Poly |-> pts]>>
              ELSE << >>)
             \o PolylineZones(Tail(polylines))

RECURSIVE SumX(_)
SumX(poly) == IF poly = << >> THEN 0 ELSE Head(poly)[1] + SumX(Tail(poly))

RECURSIVE SumY(_)
SumY(poly) == IF poly = << >> THEN 0 ELSE Head(poly)[2] + SumY(Tail(poly))

\* PolyCentroid, times the number of vertices.
PolyCentroidTimesCount(poly) == Pt(SumX(poly), SumY(poly))

\* d2 of the nearest-label loop, times the square of the vertex count.
Dist2(p, poly) ==
    LET c  == PolyCentroidTimesCount(poly)
        dx == Len(poly) * p[1] - c[1]
        dy == Len(poly) * p[2] - c[2]
    IN  dx * dx + dy * dy

\* The first label not yet used whose anchor is inside the loop; 0 if none.
InsideLabel(labels, used, poly) ==
    LET hits == {i \in 1..Len(labels) :
                    /\ i \notin used
                    /\ ~IsNullOrWhiteSpace(labels[i].txt)
                    /\ PointInPolygon(labels[i].pos, poly)}
    IN  IF hits = {} THEN 0 ELSE CHOOSE i \in hits : \A j \in hits : i <= j

\* The label not yet used nearest to the centroid, the earliest of the
\* nearest; 0 if none.
NearestLabel(labels, used, poly) ==
    LET cands == {i \in 1..Len(labels) :
                     i \notin used /\ ~IsNullOrWhiteSpace(labels[i].txt)}
    IN  IF cands = {} THEN 0
        ELSE CHOOSE i \in cands :
                \A j \in cands :
                    \/ Dist2(labels[i].pos, poly) < Dist2(labels[j].pos, poly)
                    \/ Dist2(labels[i].pos, poly) = Dist2(labels[j].pos, poly) /\ i <= j

DigitChar(d) == 48 + d

RECURSIVE Digits(_)
Digits(n) == IF n < 10 THEN <<DigitChar(n)>> ELSE Digits(n \div 10) \o <<DigitChar(n % 10)>>

\* int.ToString("00")
TwoDigits(n) == IF n < 10 THEN <<DigitChar(0)>> \o Digits(n) ELSE Digits(n)

StrZone == <<90, 111, 110, 101, 32>>                         \* "Zone "

\* A naming loop that forgets which labels it has used.
RECURSIVE NameLoopsReusingLabels(_, _, _, _)
NameLoopsReusingLabels(loops, labels, used, autoIndex) ==
    IF loops = << >> THEN << >>
    ELSE LET z       == Head(loops)
             inside  == InsideLabel(labels, used, z.Poly)
             nearest == IF inside = 0 /\ Len(labels) > 0
                        THEN NearestLabel(labels, used, z.Poly) ELSE 0
             taken   == IF inside > 0 THEN inside ELSE nearest
             zname   == IF taken > 0 THEN Trim(labels[taken].txt) ELSE EmptyStr
             name    == IF IsNullOrWhiteSpace(zname)
                        THEN StrZone \o TwoDigits(autoIndex) ELSE zname
         IN  <<[Name |-> name, Poly |-> z.Poly]>>
             \o NameLoopsReusingLabels(Tail(loops), labels, used, autoIndex + 1)

\* A naming loop that takes the nearest label without looking inside.
RECURSIVE NameLoopsNearestOnly(_, _, _, _)
NameLoopsNearestOnly(loops, labels, used, autoIndex) ==
    IF loops = << >> THEN << >>
    ELSE LET z     == Head(loops)
             taken == IF Len(labels) > 0 THEN NearestLabel(labels, used, z.Poly) ELSE 0
             zname == IF taken > 0 THEN Trim(labels[taken].txt) ELSE EmptyStr
             name  == IF IsNullOrWhiteSpace(zname)
                      THEN StrZone \o TwoDigits(autoIndex) ELSE zname
             used2 == IF taken > 0 THEN used \cup {taken} ELSE used
         IN  <<[Name |-> name, Poly |-> z.Poly]>>
             \o NameLoopsNearestOnly(Tail(loops), labels, used2, autoIndex + 1)

\* A naming loop whose auto index advances only when it was used.
RECURSIVE NameLoopsCountingSynthesized(_, _, _, _)
NameLoopsCountingSynthesized(loops, labels, used, autoIndex) ==
    IF loops = << >> THEN << >>
    ELSE LET z       == Head(loops)
             inside  == InsideLabel(labels, used, z.Poly)
             nearest == IF inside = 0 /\ Len(labels) > 0
                        THEN NearestLabel(labels, used, z.Poly) ELSE 0
             taken   == IF inside > 0 THEN inside ELSE nearest
             zname   == IF taken > 0 THEN Trim(labels[taken].txt) ELSE EmptyStr
             name    == IF IsNullOrWhiteSpace(zname)
                        THEN StrZone \o TwoDigits(autoIndex) ELSE zname
             used2   == IF taken > 0 THEN used \cup {taken} ELSE used
             next    == IF IsNullOrWhiteSpace(zname) THEN autoIndex + 1 ELSE autoIndex
         IN  <<[Name |-> name, Poly |-> z.Poly]>>
             \o NameLoopsCountingSynthesized(Tail(loops), labels, used2, next)

\* The naming loop, on the loops not yet named: the label indices used so
\* far and the auto index.
RECURSIVE NameLoops(_, _, _, _)
NameLoops(loops, labels, used, autoIndex) ==
    IF loops = << >> THEN << >>
    ELSE LET z       == Head(loops)
             inside  == InsideLabel(labels, used, z.Poly)
             nearest == IF inside = 0 /\ Len(labels) > 0
                        THEN NearestLabel(labels, used, z.Poly) ELSE 0
             taken   == IF inside > 0 THEN inside ELSE nearest
             zname   == IF taken > 0 THEN Trim(labels[taken].txt) ELSE EmptyStr
             name    == IF IsNullOrWhiteSpace(zname)
                        THEN StrZone \o TwoDigits(autoIndex) ELSE zname
             used2   == IF taken > 0 THEN used \cup {taken} ELSE used
         IN  <<[Name |-> name, Poly |-> z.Poly]>>
             \o NameLoops(Tail(loops), labels, used2, autoIndex + 1)

\* The index usedLabel receives for each loop, in the order of the loops,
\* by a loop that never looks at usedLabel again; 0 for none.
RECURSIVE TakenLabelsForgetting(_, _, _)
TakenLabelsForgetting(loops, labels, used) ==
    IF loops = << >> THEN << >>
    ELSE LET z       == Head(loops)
             inside  == InsideLabel(labels, {}, z.Poly)
             nearest == IF inside = 0 /\ Len(labels) > 0
                        THEN NearestLabel(labels, {}, z.Poly) ELSE 0
             taken   == IF inside > 0 THEN inside ELSE nearest
         IN  <<taken>> \o TakenLabelsForgetting(Tail(loops), labels, used)

\* The index the naming loop adds to usedLabel for each loop, in the order
\* of the loops: usedLabel.Add(i) or usedLabel.Add(bestIdx); 0 when it
\* adds none.
RECURSIVE TakenLabels(_, _, _)
TakenLabels(loops, labels, used) ==
    IF loops = << >> THEN << >>
    ELSE LET z       == Head(loops)
             inside  == InsideLabel(labels, used, z.Poly)
             nearest == IF inside = 0 /\ Len(labels) > 0
                        THEN NearestLabel(labels, used, z.Poly) ELSE 0
             taken   == IF inside > 0 THEN inside ELSE nearest
             used2   == IF taken > 0 THEN used \cup {taken} ELSE used
         IN  <<taken>> \o TakenLabels(Tail(loops), labels, used2)

\* double.ToString("0.###") of a coordinate, kept in half drawing units.
FormatCoord(v) ==
    (IF v < 0 THEN <<45>> ELSE << >>)
    \o Digits(Abs(v) \div 2)
    \o (IF Abs(v) % 2 = 1 THEN <<46, 53>> ELSE << >>)

RECURSIVE JoinPoints(_)
JoinPoints(poly) ==
    IF poly = << >> THEN << >>
    ELSE FormatCoord(Head(poly)[1]) \o <<44>> \o FormatCoord(Head(poly)[2])
         \o (IF Len(poly) > 1 THEN <<59>> ELSE << >>)
         \o JoinPoints(Tail(poly))

\* The signature the de-dupe keeps one zone of.
ZoneSig(z) == z.Name \o <<124>> \o JoinPoints(z.Poly)

\* A de-dupe whose set of signatures tells letter case apart.
RECURSIVE DeDupeOrdinal(_, _, _)
DeDupeOrdinal(zs, seen, outZones) ==
    IF zs = << >> THEN outZones
    ELSE LET z   == Head(zs)
             sig == ZoneSig(z)
         IN  IF Len(z.Poly) < 3 \/ sig \in seen
             THEN DeDupeOrdinal(Tail(zs), seen, outZones)
             ELSE DeDupeOrdinal(Tail(zs), seen \cup {sig}, Append(outZones, z))

RECURSIVE DeDupe(_, _, _)
DeDupe(zs, seen, outZones) ==
    IF zs = << >> THEN outZones
    ELSE LET z   == Head(zs)
             sig == ZoneSig(z)
         IN  IF Len(z.Poly) < 3 THEN DeDupe(Tail(zs), seen, outZones)
             ELSE IF \E t \in seen : EqualsIgnoreCase(t, sig)
                  THEN DeDupe(Tail(zs), seen, outZones)
                  ELSE DeDupe(Tail(zs), seen \cup {sig}, Append(outZones, z))

\* The zones before the de-dupe: those of the placements, then the loops.
PlannerZonesAll(texts, inserts, polylines, headless) ==
    InsertZones(inserts)
    \o NameLoops(PolylineZones(polylines), CollectLabels(texts, headless), {}, 1)

CollectPlannerZones(texts, inserts, polylines, headless) ==
    DeDupe(PlannerZonesAll(texts, inserts, polylines, headless), {}, << >>)

\* The PLANNER placements that mark the zones of a drawing.
PlannerRef(name, lo, hi) ==
    BR(name, StrPlanner, lo, Extents(lo, hi), FALSE, EmptyStr, 0, 0)

PlannerRefLists ==
    { << >>,
      <<PlannerRef(StrConf, Pt(0, 0), Pt(8, 8)), PlannerRef(StrCONF, Pt(12, 0), Pt(20, 8))>>,
      <<PlannerRef(StrConf, Pt(0, 0), Pt(8, 8)), PlannerRef(StrLab, Pt(12, 0), Pt(20, 8))>> }

(***************************************************************************)
(* BuildConfigStringFromBuckets.  A bucket dictionary is the list of its   *)
(* entries [key, vals] in insertion order; a number is kept as twice its   *)
(* value, so that the mean of two whole numbers is exact.                  *)
(***************************************************************************)
IsDigitChar(c) == c \in 48..57

RECURSIVE DigitsValue(_)
DigitsValue(ds) ==
    IF ds = << >> THEN 0
    ELSE 10 * DigitsValue(SubSeq(ds, 1, Len(ds) - 1)) + (ds[Len(ds)] - 48)

\* double.TryParse(s, NumberStyles.Any, InvariantCulture, out d), on
\* strings of letters, digits, a leading sign and surrounding blanks.
TryParse(str) ==
    LET t    == Trim(str)
        sign == t # << >> /\ t[1] \in {43, 45}
        body == IF sign THEN Tail(t) ELSE t
    IN  IF body # << >> /\ \A i \in 1..Len(body) : IsDigitChar(body[i])
        THEN [ok |-> TRUE,
              val |-> (IF sign /\ t[1] = 45 THEN -2 ELSE 2) * DigitsValue(body)]
        ELSE [ok |-> FALSE, val |-> 0]

RECURSIVE ParsedNumbers(_)
ParsedNumbers(vals) ==
    IF vals = << >> THEN << >>
    ELSE (IF TryParse(Head(vals)).ok THEN <<TryParse(Head(vals)).val>> ELSE << >>)
         \o ParsedNumbers(Tail(vals))

\* nums.Sort() and the middle value, or the mean of the two middle ones,
\* as ToString("0.####") prints it.
NumericChoice(nums) ==
    LET ys == SortAscending(nums)
        n  == Len(ys)
    IN  IF n % 2 = 1 THEN FormatCoord(ys[(n \div 2) + 1])
        ELSE FormatCoord((ys[n \div 2] + ys[(n \div 2) + 1]) \div 2)

\* GroupBy(x => x.Trim(), OrdinalIgnoreCase): the keys, in the order of
\* their first values.
RECURSIVE GroupKeys(_, _)
GroupKeys(vals, keys) ==
    IF vals = << >> THEN keys
    ELSE LET k == Trim(Head(vals))
         IN  IF IsNullOrWhiteSpace(Head(vals))
                \/ \E i \in 1..Len(keys) : EqualsIgnoreCase(keys[i], k)
             THEN GroupKeys(Tail(vals), keys)
             ELSE GroupKeys(Tail(vals), Append(keys, k))

GroupCount(vals, k) ==
    Cardinality({i \in 1..Len(vals) :
                    ~IsNullOrWhiteSpace(vals[i]) /\ EqualsIgnoreCase(Trim(vals[i]), k)})

\* OrderByDescending(count).ThenBy(key).FirstOrDefault() ?? ""
CategoricalChoice(vals) ==
    LET keys == GroupKeys(vals, << >>)
    IN  IF keys = << >> THEN EmptyStr
        ELSE LET best == CHOOSE i \in 1..Len(keys) :
                            \A j \in 1..Len(keys) :
                                \/ GroupCount(vals, keys[i]) > GroupCount(vals, keys[j])
                                \/ /\ GroupCount(vals, keys[i]) = GroupCount(vals, keys[j])
                                   /\ CompareIgnoreCase(keys[i], keys[j]) <= 0
             IN  keys[best]

\* Math.Max(1, vals.Count / 2), the division being that of integers.
NumericThreshold(n) == IF n \div 2 >= 1 THEN n \div 2 ELSE 1

\* The value chosen for one bucket.
ChosenValue(vals) ==
    LET nums == ParsedNumbers(vals)
    IN  IF Len(nums) >= NumericThreshold(Len(vals)) THEN NumericChoice(nums)
        ELSE CategoricalChoice(vals)

RECURSIVE InsertBucket(_, _)
InsertBucket(b, sorted) ==
    IF sorted = << >> THEN <<b>>
    ELSE IF CompareIgnoreCase(b.key, Head(sorted).key) < 0 THEN <<b>> \o sorted
    ELSE <<Head(sorted)>> \o InsertBucket(b, Tail(sorted))

\* The entries with a key that is not blank, ordered by key.
RECURSIVE OrderBuckets(_)
OrderBuckets(buckets) ==
    IF buckets = << >> THEN << >>
    ELSE LET b    == buckets[Len(buckets)]
             rest == OrderBuckets(SubSeq(buckets, 1, Len(buckets) - 1))
         IN  IF IsNullOrWhiteSpace(b.key) THEN rest ELSE InsertBucket(b, rest)

RECURSIVE ConfigParts(_)
ConfigParts(ordered) ==
    IF ordered = << >> THEN << >>
    ELSE LET b      == Head(ordered)
             chosen == ChosenValue(b.vals)
         IN  (IF b.vals # << >> /\ ~IsNullOrWhiteSpace(chosen)
              THEN <<b.key \o <<61>> \o chosen>> ELSE << >>)
             \o ConfigParts(Tail(ordered))

\* string.Join("; ", parts)
RECURSIVE JoinParts(_)
JoinParts(parts) ==
    IF parts = << >> THEN EmptyStr
    ELSE IF Len(parts) = 1 THEN parts[1]
    ELSE parts[1] \o <<59, 32>> \o JoinParts(Tail(parts))

BuildConfigStringFromBuckets(buckets) == JoinParts(ConfigParts(OrderBuckets(buckets)))

\* The model spaces a run is given: the planner placements, then up to
\* MaxInserts placements of refs, in the order the host enumerates them.
DrawingsOf(refs) ==
    {planner \o ms : planner \in PlannerRefLists,
                     ms \in UNION {[1..n -> refs] : n \in 0..MaxInserts}}

Drawings == DrawingsOf(BlockRefs)

StrPlannerLower == <<112, 108, 97, 110, 110, 101, 114>>      \* "planner"

\* The layer table of a drawing: the layers its entities are on.
LayersOf(ms) == {ms[i].layer : i \in 1..Len(ms)}

\* LayerTable.Has: symbol names are matched without regard to case.
HasLayer(lt, layerName) == \E l \in lt : EqualsIgnoreCase(l, layerName)

EnsureLayerExists(lt, layerName) ==
    IF IsNullOrWhiteSpace(layerName) THEN lt
    ELSE IF HasLayer(lt, layerName) THEN lt
    ELSE lt \cup {layerName}

\* A move that puts the entities on another layer than the planner one.
MoveLayerContentsElsewhere(ms, fromLayer, toLayer) ==
    LET from == Trim(fromLayer)
    IN  [i \in 1..Len(ms) |->
            IF EqualsIgnoreCase(Trim(ms[i].layer), from)
            THEN [ms[i] EXCEPT !.layer = StrFurn]
            ELSE ms[i]]

MoveLayerContents(ms, fromLayer, toLayer) ==
    LET from == Trim(fromLayer)
        to   == Trim(toLayer)
    IN  IF Len(from) = 0 \/ Len(to) = 0 THEN ms
        ELSE [i \in 1..Len(ms) |->
                IF EqualsIgnoreCase(Trim(ms[i].layer), from)
                THEN [ms[i] EXCEPT !.layer = to]
                ELSE ms[i]]

(***************************************************************************)
(* State.                                                                  *)
(***************************************************************************)
VARIABLES
    headless,          \* FALSE: DwgExtract.cs; TRUE: the later variant
    zones,             \* the list CollectPlannerZones returned
    drawing,           \* model space: the placements, in enumeration order
    layerTable,        \* the names in the drawing's layer table
    processed,         \* the placements enumerated so far, with their zone
    allGrouped,        \* Dictionary<string, AllAgg>
    visGrouped,        \* Dictionary<string, VisAgg>
    totalInserts,
    dynamicProcessed,
    visKept,
    pc,                \* "start", "zoned", "pass", "finalized", "done"; "idle" outside a run
    sheetRows,         \* the list BuildSheetLikeRows returned
    run,               \* 1 during the first run on a drawing, 2 during a second
    firstRows,         \* the sheet rows the first run wrote
    unitToFt,          \* the factor GetScaleToFeet returned, in the layer scan
    scanned,           \* how many entities of model space the layer scan has visited
    layerAgg,          \* Dictionary<ZoneLayerKey, LayerAgg>
    layerRows,         \* the list BuildLayersSheetLikeRows returned
    fn,                \* the function called, in the function runs
    arg,               \* its arguments
    ret,               \* its result
    done               \* whether it has returned

runVars ==
    <<headless, zones, drawing, layerTable, processed, allGrouped, visGrouped,
      totalInserts, dynamicProcessed, visKept, pc, sheetRows, run, firstRows>>

callVars == <<fn, arg, ret, done>>

layerVars == <<unitToFt, scanned, layerAgg, layerRows>>

vars == <<runVars, callVars, layerVars>>

NoLayers == unitToFt = 1 /\ scanned = 0 /\ layerAgg = << >> /\ layerRows = << >>

NoCall == fn = "none" /\ arg = 0 /\ ret = 0 /\ done = FALSE

NoRun ==
    /\ headless = FALSE
    /\ zones = << >>
    /\ drawing = << >>
    /\ layerTable = {}
    /\ processed = << >>
    /\ allGrouped = << >>
    /\ visGrouped = << >>
    /\ totalInserts = 0
    /\ dynamicProcessed = 0
    /\ visKept = 0
    /\ pc = "idle"
    /\ sheetRows = << >>
    /\ run = 0
    /\ firstRows = << >>

(***************************************************************************)
(* VisJsonNetCommand: one run of the command over a drawing.               *)
(***************************************************************************)
\* The state a run starts in: the locals of the command as it declares
\* them, the zones collected.
StartOfRun ==
    /\ processed = << >>
    /\ allGrouped = << >>
    /\ visGrouped = << >>
    /\ totalInserts = 0
    /\ dynamicProcessed = 0
    /\ visKept = 0
    /\ pc = "start"
    /\ sheetRows = << >>
    /\ zones = << >>

InitOn(drawings) ==
    /\ headless \in BOOLEAN
    /\ drawing \in drawings
    /\ layerTable = LayersOf(drawing)
    /\ StartOfRun
    /\ run = 1
    /\ firstRows = << >>
    /\ NoCall
    /\ NoLayers

Init == InitOn(Drawings)

\* var zones = CollectPlannerZones(tr, ms)
CollectZones ==
    /\ pc = "start"
    /\ zones' = CollectPlannerZones(<< >>, drawing, << >>, headless)
    /\ pc' = (IF headless THEN "zoned" ELSE "pass")
    /\ UNCHANGED <<headless, drawing, layerTable, processed, allGrouped, visGrouped,
                   totalInserts, dynamicProcessed, visKept, sheetRows, run,
                   firstRows, callVars, layerVars>>

\* Later variant, before the pass: EnsureLayerExists(tr, db, "planner");
\* MoveLayerContents(tr, ms, "PLANNER", "planner").
MovePlannerLayer ==
    /\ pc = "zoned"
    /\ layerTable' = EnsureLayerExists(layerTable, StrPlannerLower)
    /\ drawing' = MoveLayerContents(drawing, StrPlanner, StrPlannerLower)
    /\ pc' = "pass"
    /\ UNCHANGED <<headless, zones, processed, allGrouped, visGrouped,
                   totalInserts, dynamicProcessed, visKept, sheetRows, run,
                   firstRows, callVars, layerVars>>

\* The zone name the pass files a placement under.
ZoneNameOf(br, zs, hl) ==
    IF hl THEN NormalizeZone(ResolveZoneForBlockRef(br, zs))
    ELSE ResolveZoneForBlockRef(br, zs)

\* One iteration of the loop over model space, on a placement of the
\* planner layer: skipped.
SkipPlannerInsert(br) ==
    /\ pc = "pass"
    /\ Len(processed) < Len(drawing)
    /\ br = drawing[Len(processed) + 1]
    /\ IsPlannerLayer(br.layer)
    /\ processed' = Append(processed, [br |-> br, zone |-> EmptyStr])
    /\ UNCHANGED <<headless, zones, drawing, layerTable, allGrouped, visGrouped,
                   totalInserts, dynamicProcessed, visKept, pc, sheetRows, run,
                   firstRows, callVars, layerVars>>

\* One iteration of the loop over model space, on any other placement.
ProcessInsert(br) ==
    /\ pc = "pass"
    /\ Len(processed) < Len(drawing)
    /\ br = drawing[Len(processed) + 1]
    /\ ~IsPlannerLayer(br.layer)
    /\ LET zoneName == ZoneNameOf(br, zones, headless)
           vis      == GetVisibilityState(br)
       IN  /\ totalInserts' = totalInserts + 1
           /\ allGrouped' = UpdateAll(allGrouped, br, zoneName, headless)
           /\ dynamicProcessed' = IF br.dyn THEN dynamicProcessed + 1
                                  ELSE dynamicProcessed
           /\ IF ~IsNullOrWhiteSpace(vis)
              THEN /\ visKept' = visKept + 1
                   /\ visGrouped' = UpdateVis(visGrouped, br, vis)
              ELSE UNCHANGED <<visKept, visGrouped>>
           /\ processed' = Append(processed,
                                  [br |-> br, zone |-> ResolveZoneForBlockRef(br, zones)])
    /\ UNCHANGED <<headless, zones, drawing, layerTable, pc, sheetRows, run,
                   firstRows, callVars, layerVars>>

\* The two "finalize medians" loops after the pass.
Finalize ==
    /\ pc = "pass"
    /\ Len(processed) = Len(drawing)
    /\ visGrouped' = [i \in 1..Len(visGrouped) |-> FinalizeGroup(visGrouped[i])]
    /\ allGrouped' = [i \in 1..Len(allGrouped) |-> FinalizeGroup(allGrouped[i])]
    /\ pc' = "finalized"
    /\ UNCHANGED <<headless, zones, drawing, layerTable, processed, totalInserts,
                   dynamicProcessed, visKept, sheetRows, run, firstRows, callVars, layerVars>>

\* var sheetRows = BuildSheetLikeRows(allGrouped.Values.ToList())
WriteSheetRows ==
    /\ pc = "finalized"
    /\ sheetRows' = BuildSheetLikeRows(allGrouped, headless)
    /\ pc' = "done"
    /\ UNCHANGED <<headless, zones, drawing, layerTable, processed, allGrouped,
                   visGrouped, totalInserts, dynamicProcessed, visKept, run,
                   firstRows, callVars, layerVars>>

\* foreach (ObjectId id in ms): the placement the loop is at, if any.
Pending == {drawing[i] : i \in {Len(processed) + 1} \cap (1..Len(drawing))}

Next ==
    \/ CollectZones
    \/ MovePlannerLayer
    \/ \E br \in Pending : SkipPlannerInsert(br)
    \/ \E br \in Pending : ProcessInsert(br)
    \/ Finalize
    \/ WriteSheetRows

Spec == Init /\ [][Next]_vars

(***************************************************************************)
(* The command run a second time on the drawing the first run left.        *)
(***************************************************************************)
\* The placements of the drawings that are run twice.
RerunBlockRefs ==
    { BR(StrTa, StrFurn, PtInConf, NoExtents, FALSE, EmptyStr, 8, 4),
      BR(StrTA, StrFurn, PtOutside, NoExtents, TRUE, Strv1, 8, 2),
      BR(StrCh, StrWall, PtOutside, NoExtents, FALSE, EmptyStr, 2, 0),
      BR(StrCh, StrFurn, PtInConf, NoExtents, TRUE, StrV1, 4, 4) }

RerunDrawings == DrawingsOf(RerunBlockRefs)

InitRerun == InitOn(RerunDrawings)

\* The command is issued again: its locals are declared anew, the drawing
\* is the one the first run committed.
RunAgain ==
    /\ pc = "done"
    /\ run = 1
    /\ UNCHANGED <<headless, drawing, layerTable, callVars, layerVars>>
    /\ run' = 2
    /\ zones' = << >>
    /\ firstRows' = sheetRows
    /\ processed' = << >>
    /\ allGrouped' = << >>
    /\ visGrouped' = << >>
    /\ totalInserts' = 0
    /\ dynamicProcessed' = 0
    /\ visKept' = 0
    /\ pc' = "start"
    /\ sheetRows' = << >>

NextRerun == Next \/ RunAgain

SpecRerun == InitRerun /\ [][NextRerun]_vars

(***************************************************************************)
(* The functions of the engine, each called once on inputs drawn from      *)
(* bounded sets.                                                           *)
(***************************************************************************)
MaxCoord == 3

MaxPerimeter == 4 * MaxSide

MaxArea == MaxSide * MaxSide

\* Sample lists: whole feet, in half feet.
SampleValues == {2 * k : k \in 1..MaxSampleValue}

SampleLists == UNION {[1..n -> SampleValues] : n \in 0..MaxSamples}

\* Axis-aligned rectangles, from any corner, in either orientation.
Rotate(poly, k) == [i \in 1..Len(poly) |-> poly[((i + k - 1) % Len(poly)) + 1]]

Reverse(poly) == [i \in 1..Len(poly) |-> poly[Len(poly) + 1 - i]]

Boxes ==
    {b \in [minX : 0..MaxCoord, minY : 0..MaxCoord, maxX : 0..MaxCoord, maxY : 0..MaxCoord] :
        b.minX < b.maxX /\ b.minY < b.maxY}

BoxPoly(b) == RectPoly(b.minX, b.minY, b.maxX, b.maxY)

\* The four vertices of a box, from any of them, in either orientation.
BoxPolys(b) ==
    {Rotate(BoxPoly(b), k) : k \in 0..3}
    \cup {Reverse(Rotate(BoxPoly(b), k)) : k \in 0..3}

QueryPoints == (-1..(MaxCoord + 1)) \X (-1..(MaxCoord + 1))

PipInputs ==
    UNION {{[pt |-> p, box |-> b, poly |-> poly] :
              p \in QueryPoints, poly \in BoxPolys(b)} : b \in Boxes}

\* Perimeter and area pairs on which Math.Sqrt is exact.
RectInputs ==
    {pa \in [P : -2..MaxPerimeter, A : -1..MaxArea] :
        pa.P * pa.P - 16 * pa.A < 0 \/ IsSquare(pa.P * pa.P - 16 * pa.A)}

\* Non-block entities, with the extents the host reports for them.
GridX == {2, 10, 14, 18}

GridY == {2, 6}

GridPoints == GridX \X GridY

Radii == {4, 8}

Ent(kind, p1, p2, centre, ext) ==
    [kind |-> kind, p1 |-> p1, p2 |-> p2, centre |-> centre, ext |-> ext]

MinOf(a, b) == IF a <= b THEN a ELSE b

MaxOf(a, b) == IF a >= b THEN a ELSE b

LineEnt(p, q) ==
    Ent("Line", p, q, Pt(0, 0),
        Extents(Pt(MinOf(p[1], q[1]), MinOf(p[2], q[2])),
                Pt(MaxOf(p[1], q[1]), MaxOf(p[2], q[2]))))

CircleEnt(c, r) ==
    Ent("Circle", Pt(0, 0), Pt(0, 0), c,
        Extents(Pt(c[1] - r, c[2] - r), Pt(c[1] + r, c[2] + r)))

\* A quarter arc of radius r about c, in quadrant q (0: from 0 to 90
\* degrees, counter-clockwise ... 3: from 270 to 360).
ArcEnt(c, r, q) ==
    LET x0 == IF q \in {0, 3} THEN c[1] ELSE c[1] - r
        y0 == IF q \in {0, 1} THEN c[2] ELSE c[2] - r
    IN  Ent("Arc", Pt(0, 0), Pt(0, 0), c, Extents(Pt(x0, y0), Pt(x0 + r, y0 + r)))

PolylineEnt(lo, hi) == Ent("Polyline", Pt(0, 0), Pt(0, 0), Pt(0, 0), Extents(lo, hi))

HatchEnt(ext) == Ent("Hatch", Pt(0, 0), Pt(0, 0), Pt(0, 0), ext)

Quadrants == 0..3

Entities ==
    {LineEnt(p, q) : p \in GridPoints, q \in GridPoints}
    \cup {CircleEnt(c, r) : c \in GridPoints, r \in Radii}
    \cup {ArcEnt(c, r, q) : c \in GridPoints, r \in Radii, q \in Quadrants}
    \cup {PolylineEnt(e[1], e[2]) :
            e \in {f \in GridPoints \X GridPoints :
                     f[1][1] <= f[2][1] /\ f[1][2] <= f[2][2]}}
    \cup {HatchEnt(NoExtents)}

\* Placements, for the zone resolution alone.
ProbeBlockRefs ==
    {BR(StrTa, StrFurn, p, NoExtents, FALSE, EmptyStr, 0, 0) : p \in GridPoints}
    \cup {BR(StrTa, StrFurn, p, Extents(lo, Pt(lo[1] + 8, lo[2] + 4)), FALSE, EmptyStr, 0, 0) :
            p \in GridPoints, lo \in GridPoints}

\* Bucket dictionaries.
MaxValues == 3

StrR == <<82>>                                              \* "R"

StrBlank == <<32, 32>>                                      \* "  "

ConfigValues == {<<49>>, <<51>>, <<65>>, <<98>>, <<97>>}    \* "1" "3" "A" "b" "a"

ValueLists == UNION {[1..n -> ConfigValues] : n \in 0..MaxValues}

BucketInputs ==
    {<<[key |-> StrR, vals |-> v]>> : v \in ValueLists}
    \cup {<<[key |-> Strv1, vals |-> v], [key |-> k, vals |-> w]>> :
             v \in ValueLists, k \in {StrR, StrBlank}, w \in {<< >>, <<<<51>>>>}}

\* The sequences of at most k elements of list, in its order.
RECURSIVE Picks(_, _)
Picks(list, k) ==
    IF list = << >> \/ k = 0 THEN {<< >>}
    ELSE Picks(Tail(list), k)
         \cup {<<Head(list)>> \o s : s \in Picks(Tail(list), k - 1)}

\* The same, in the order of list or in the opposite order.
PicksEitherWay(list, k) == Picks(list, k) \cup Picks(Reverse(list), k)

\* Planner evidence: texts, planner placements and polylines.
MaxLabels == 2

MaxLoops == 2

StrTaTwoLines == <<84, 97, 92, 112, 88>>                    \* "Ta\pX"

PlannerTexts ==
    << DBText(StrPlanner, StrConf, Pt(2, 2)),
       DBText(StrFurn, StrLab, Pt(14, 2)),
       MText(StrPlanner, StrTaTwoLines, Pt(20, 6)),
       DBText(StrPlanner, StrBlank, Pt(2, 2)) >>

PlannerPolylines ==
    << PolylineLoop(StrPlanner, TRUE, RectPoly(0, 0, 8, 8)),
       PolylineLoop(StrPlannerPadded, TRUE,
                    <<Pt(12, 0), Pt(12, 0), Pt(28, 0), Pt(28, 4), Pt(12, 4), Pt(12, 0)>>),
       PolylineLoop(StrPlanner, TRUE, <<Pt(0, 0), Pt(8, 0), Pt(0, 0), Pt(8, 0)>>),
       PolylineLoop(StrPlanner, FALSE, RectPoly(0, 0, 8, 8)) >>

PlannerInserts ==
    { << >>,
      <<PlannerRef(StrConf, Pt(0, 0), Pt(8, 8))>>,
      <<PlannerRef(StrLab, Pt(0, 0), Pt(8, 0))>>,
      <<PlannerRef(StrConf, Pt(0, 0), Pt(8, 8)), PlannerRef(StrLab, Pt(0, 0), Pt(8, 8)),
        PlannerRef(StrCONF, Pt(0, 0), Pt(8, 8))>>,
      <<BR(StrTa, StrFurn, Pt(0, 0), Extents(Pt(0, 0), Pt(8, 8)), FALSE, EmptyStr, 0, 0),
        BR(StrLab, StrPlanner, Pt(0, 0), NoExtents, FALSE, EmptyStr, 0, 0)>> }

PlannerInputs ==
    [texts     : PicksEitherWay(PlannerTexts, MaxLabels),
     inserts   : PlannerInserts,
     polylines : PicksEitherWay(PlannerPolylines, MaxLoops),
     headless  : BOOLEAN]

\* Zone lists with overlapping zones, and the points looked up in them.
OverlapInserts ==
    { << >>,
      <<PlannerRef(StrConf, Pt(0, 0), Pt(8, 8))>>,
      <<PlannerRef(StrConf, Pt(0, 0), Pt(8, 8)), PlannerRef(StrLab, Pt(4, 0), Pt(12, 8))>>,
      <<PlannerRef(StrLab, Pt(4, 0), Pt(12, 8)), PlannerRef(StrConf, Pt(0, 0), Pt(8, 8))>> }

OverlapPolylines ==
    { << >>,
      <<PolylineLoop(StrPlanner, TRUE, RectPoly(4, 4, 12, 12))>>,
      <<PolylineLoop(StrPlanner, TRUE, RectPoly(4, 4, 12, 12)),
        PolylineLoop(StrPlanner, TRUE, RectPoly(0, 0, 16, 16))>> }

OverlapTexts == <<DBText(StrPlanner, StrTa, Pt(6, 6))>>

LookupPoints == {2, 6, 10, 14, 18} \X {2, 6, 10, 14}

ZoneForPointInputs ==
    {[pt |-> p, zones |-> CollectPlannerZones(OverlapTexts, i, l, FALSE),
      inserts |-> i, polylines |-> l] :
        p \in LookupPoints, i \in OverlapInserts, l \in OverlapPolylines}

\* The attributes of a planner placement: tags of the candidate set in
\* either case, a tag outside it, texts that are blank or not.
MaxAttrs == 2

StrNAME == <<78, 65, 77, 69>>                               \* "NAME"

StrRoomLower == <<114, 111, 111, 109>>                      \* "room"

StrTITLE == <<84, 73, 84, 76, 69>>                          \* "TITLE"

StrColor == <<67, 111, 108, 111, 114>>                      \* "Color"

Attributes ==
    [tag : {StrNAME, StrRoomLower, StrTITLE, StrColor}, text : {StrTa, StrLab, StrBlank}]

AttributeLists == UNION {[1..n -> Attributes] : n \in 0..MaxAttrs}

\* A planner placement of type "Ch" that carries the attributes attrs.
AttributedRef(attrs) ==
    [PlannerRef(StrCh, Pt(0, 0), Pt(8, 8)) EXCEPT !.attrs = attrs]

UnitToFtValues == {1, 3}                                     \* Feet, Yards

\* Block definitions: the extents of their entities in the definition's
\* own space, an entity without extents among them; and the scale
\* factors, rotation (in quarter turns) and unit factor of a placement.
MaxChildren == 2

ChildExtents ==
    { NoExtents, Extents(Pt(0, 0), Pt(4, 2)), Extents(Pt(2, 0), Pt(3, 6)),
      Extents(Pt(1, 1), Pt(1, 1)) }

ScaleFactors == {-2, -1, 1, 2}

BlockSizeInputs ==
    [children : UNION {[1..n -> ChildExtents] : n \in 0..MaxChildren},
     sx : ScaleFactors, sy : ScaleFactors, rotation : {0, 1}, unit : UnitToFtValues]

InitFn ==
    /\ NoRun
    /\ NoLayers
    /\ ret = 0
    /\ done = FALSE
    /\ \/ fn = "Median" /\ arg \in [xs : SampleLists]
       \/ fn = "PointInPolygon"
          /\ arg \in PipInputs
       \/ fn = "SolveRectDimsFromPerimeterArea" /\ arg \in RectInputs
       \/ fn = "GetScaleToFeet" /\ arg \in [u : UnitsValue, readFails : BOOLEAN]
       \/ fn = "ResolveZoneForEntity" /\ arg \in [ent : Entities, zones : ZoneLists]
       \/ fn = "ResolveZoneForBlockRef" /\ arg \in [br : ProbeBlockRefs, zones : ZoneLists]
       \/ fn = "BuildConfigStringFromBuckets" /\ arg \in [buckets : BucketInputs]
       \/ fn = "CollectPlannerZones" /\ arg \in PlannerInputs
       \/ fn = "ZoneForPoint" /\ arg \in ZoneForPointInputs
       \/ fn = "TryGetPlannerNameFromAttributes" /\ arg \in [attrs : AttributeLists]
       \/ fn = "GetBlockSizeFeet" /\ arg \in BlockSizeInputs

Return(v) ==
    /\ ~done
    /\ ret' = v
    /\ done' = TRUE
    /\ UNCHANGED <<runVars, fn, arg, layerVars>>

CallMedian == fn = "Median" /\ Return(Median(arg.xs))

CallPointInPolygon == fn = "PointInPolygon" /\ Return(PointInPolygon(arg.pt, arg.poly))

CallSolveRect ==
    /\ fn = "SolveRectDimsFromPerimeterArea"
    /\ Return(SolveRectDimsFromPerimeterArea(arg.P, arg.A))

CallGetScaleToFeet ==
    fn = "GetScaleToFeet" /\ Return(GetScaleToFeet(arg.u, arg.readFails))

CallResolveZoneForEntity ==
    fn = "ResolveZoneForEntity" /\ Return(ResolveZoneForEntity(arg.ent, arg.zones))

CallResolveZoneForBlockRef ==
    fn = "ResolveZoneForBlockRef" /\ Return(ResolveZoneForBlockRef(arg.br, arg.zones))

CallBuildConfigStringFromBuckets ==
    /\ fn = "BuildConfigStringFromBuckets"
    /\ Return(BuildConfigStringFromBuckets(arg.buckets))

\* The result is given with the list before the de-dupe, zones, and the
\* label indices put into usedLabel, usedLabel, next to the list returned,
\* outZones.
CallCollectPlannerZones ==
    /\ fn = "CollectPlannerZones"
    /\ Return([zones     |-> PlannerZonesAll(arg.texts, arg.inserts, arg.polylines,
                                             arg.headless),
               usedLabel |-> TakenLabels(PolylineZones(arg.polylines),
                                         CollectLabels(arg.texts, arg.headless), {}),
               outZones  |-> CollectPlannerZones(arg.texts, arg.inserts, arg.polylines,
                                                 arg.headless)])

CallZoneForPoint == fn = "ZoneForPoint" /\ Return(ZoneForPoint(arg.pt, arg.zones))

\* string name = TryGetPlannerNameFromAttributes(tr, br), and the zone
\* CollectPlannerZones makes of the placement.
CallTryGetPlannerNameFromAttributes ==
    /\ fn = "TryGetPlannerNameFromAttributes"
    /\ Return([name  |-> TryGetPlannerNameFromAttributes(arg.attrs),
               zones |-> InsertZones(<<AttributedRef(arg.attrs)>>)])

\* GetBlockSizeFeet(tr, br, unitToFt, out lengthFt, out widthFt): the
\* rotation of the placement is not read.
CallGetBlockSizeFeet ==
    /\ fn = "GetBlockSizeFeet"
    /\ Return(BlockSizeFeetOf(arg.children, arg.sx, arg.sy, arg.unit))

NextFn ==
    \/ CallTryGetPlannerNameFromAttributes
    \/ CallGetBlockSizeFeet
    \/ CallBuildConfigStringFromBuckets
    \/ CallCollectPlannerZones
    \/ CallZoneForPoint
    \/ CallMedian
    \/ CallPointInPolygon
    \/ CallSolveRect
    \/ CallGetScaleToFeet
    \/ CallResolveZoneForEntity
    \/ CallResolveZoneForBlockRef

SpecFn == InitFn /\ [][NextFn]_vars

(***************************************************************************)
(* The layer scan of the later variant: ComputeNonBlockLayerMetrics and    *)
(* BuildLayersSheetLikeRows.                                               *)
(*                                                                         *)
(* A measure is n + pi * Math.PI, kept exact as the pair of coefficients;  *)
(* lengths are in half feet and areas in square feet.  An entity carries   *)
(* what the host reports for it: Length, Area and Radius in whole drawing  *)
(* units, StartAngle and EndAngle in quarter turns (the host keeps both    *)
(* in [0, 2 * Math.PI) and an arc runs counter-clockwise from the first to *)
(* the second), Closed.                                                    *)
(***************************************************************************)
Measure(n, pi) == [n |-> n, pi |-> pi]

Zero == Measure(0, 0)

Plus(a, b) == Measure(a.n + b.n, a.pi + b.pi)

\* The sign of n + pi * Math.PI, decided on 113 * n + 355 * pi: 355 / 113
\* is the convergent of Math.PI, so the sign is the same for |pi| < 113.
Scaled(a) == 113 * a.n + 355 * a.pi

Positive(a) == Scaled(a) > 0

\* a.X += v under the test v > 0 of the code.
PlusIfPositive(a, v) == IF Positive(v) THEN Plus(a, v) ELSE a

Drawn(e, layer, closed, length, area, radius, start, end) ==
    [kind |-> e.kind, p1 |-> e.p1, p2 |-> e.p2, centre |-> e.centre, ext |-> e.ext,
     layer |-> layer, Closed |-> closed, Length |-> length, Area |-> area,
     Radius |-> radius, StartAngle |-> start, EndAngle |-> end]

\* An axis-parallel line from p to q.
DrawnLine(layer, p, q) ==
    Drawn(LineEnt(p, q), layer, FALSE,
          (Abs(q[1] - p[1]) + Abs(q[2] - p[2])) \div 2, 0, 0, 0, 0)

DrawnCircle(layer, c, r) ==
    Drawn(CircleEnt(c, r), layer, TRUE, 0, 0, r \div 2, 0, 0)

\* A quarter arc in quadrant q: from q to q + 1 quarter turns, the end
\* angle of the fourth quadrant being 0.
DrawnArc(layer, c, r, q) ==
    Drawn(ArcEnt(c, r, q), layer, FALSE, 0, 0, r \div 2, q, (q + 1) % 4)

\* A polyline of the given class around the box lo..hi, closed, or open
\* with its last side left out.  The host reports the area enclosed by an
\* open polyline too, as if it were closed.
DrawnBox(kind, layer, closed, lo, hi) ==
    LET w == (hi[1] - lo[1]) \div 2
        h == (hi[2] - lo[2]) \div 2
    IN  Drawn(Ent(kind, Pt(0, 0), Pt(0, 0), Pt(0, 0), Extents(lo, hi)),
              layer, closed,
              IF closed THEN 2 * (w + h) ELSE 2 * w + h, w * h, 0, 0, 0)

DrawnHatch(layer, lo, hi) ==
    Drawn(Ent("Hatch", Pt(0, 0), Pt(0, 0), Pt(0, 0), Extents(lo, hi)),
          layer, FALSE, 0,
          ((hi[1] - lo[1]) \div 2) * ((hi[2] - lo[2]) \div 2), 0, 0, 0)

\* An entity of a class the scan has no branch for.
DrawnOther(kind, layer, lo, hi) ==
    Drawn(Ent(kind, Pt(0, 0), Pt(0, 0), Pt(0, 0), Extents(lo, hi)),
          layer, FALSE, 0, 0, 0, 0, 0)

\* double lenFt = <Length> * unitToFt, in half feet.
LenFt(ent, unit) == Measure(2 * ent.Length * unit, 0)

\* Math.Abs(<Area>) * unitToFt * unitToFt.
AreaFt2(ent, unit) == Measure(Abs(ent.Area) * unit * unit, 0)

\* double sweepRad = Math.Abs(ar.EndAngle - ar.StartAngle), in quarter turns.
SweepRad(ent) == Abs(ent.EndAngle - ent.StartAngle)

\* Math.Abs(ar.Radius * sweepRad) * unitToFt, in half feet: a quarter turn
\* is Math.PI / 2.
ArcLenFt(ent, unit) == Measure(0, Abs(ent.Radius * SweepRad(ent)) * unit)

\* (2.0 * Math.PI * Math.Abs(c.Radius)) * unitToFt, in half feet.
CirclePerimeterFt(ent, unit) == Measure(0, 4 * Abs(ent.Radius) * unit)

\* (Math.PI * c.Radius * c.Radius) * unitToFt * unitToFt.
CircleAreaFt2(ent, unit) == Measure(0, ent.Radius * ent.Radius * unit * unit)

\* The LayerAgg a after the branch of the entity's class has run on it.
Accumulate(a, ent, unit) ==
    IF ent.kind = "Line"
    THEN [a EXCEPT !.OpenLenFt = PlusIfPositive(@, LenFt(ent, unit))]
    ELSE IF ent.kind = "Arc"
    THEN [a EXCEPT !.OpenLenFt = PlusIfPositive(@, ArcLenFt(ent, unit))]
    ELSE IF ent.kind = "Circle"
    THEN [a EXCEPT !.PerimeterFt = PlusIfPositive(@, CirclePerimeterFt(ent, unit)),
                   !.AreaFt2 = PlusIfPositive(@, CircleAreaFt2(ent, unit))]
    ELSE IF ent.kind = "Polyline"
    THEN IF ent.Closed
         THEN [a EXCEPT !.PerimeterFt = PlusIfPositive(@, LenFt(ent, unit)),
                        !.AreaFt2 = PlusIfPositive(@, AreaFt2(ent, unit))]
         ELSE [a EXCEPT !.OpenLenFt = PlusIfPositive(@, LenFt(ent, unit))]
    ELSE IF ent.kind \in {"Polyline2d", "Polyline3d"}
    THEN IF ent.Closed
         THEN [a EXCEPT !.PerimeterFt = Plus(@, LenFt(ent, unit))]
         ELSE [a EXCEPT !.OpenLenFt = Plus(@, LenFt(ent, unit))]
    ELSE IF ent.kind = "Hatch"
    THEN [a EXCEPT !.AreaFt2 = PlusIfPositive(@, AreaFt2(ent, unit))]
    ELSE a

\* ZoneLayerKey: the constructor and Equals.
ZoneLayerKey(zone, layer) == [Zone |-> NormalizeZone(zone), Layer |-> Trim(layer)]

KeyEquals(k1, k2) ==
    EqualsIgnoreCase(k1.Zone, k2.Zone) /\ EqualsIgnoreCase(k1.Layer, k2.Layer)

\* string layer = Safe(ent.Layer).Trim(); if (layer.Length == 0) layer = "misc"
LayerOfEntity(ent) == IF Len(Trim(ent.layer)) = 0 THEN StrMisc ELSE Trim(ent.layer)

KeyOfEntity(ent, zs) ==
    ZoneLayerKey(NormalizeZone(ResolveZoneForEntity(ent, zs)), LayerOfEntity(ent))

\* The positions of the dictionary whose key equals k: none or one.
AggIndex(agg, k) == {i \in 1..Len(agg) : KeyEquals(agg[i].key, k)}

NewLayerAgg(k) ==
    [key |-> k, Zone |-> k.Zone, Layer |-> k.Layer,
     OpenLenFt |-> Zero, PerimeterFt |-> Zero, AreaFt2 |-> Zero]

\* One iteration of the loop on an entity that is neither a block
\* reference nor on the planner layer.
ScanInto(agg, ent, zs, unit) ==
    LET k == KeyOfEntity(ent, zs)
    IN  IF AggIndex(agg, k) = {}
        THEN Append(agg, Accumulate(NewLayerAgg(k), ent, unit))
        ELSE LET i == CHOOSE j \in AggIndex(agg, k) : TRUE
             IN  [agg EXCEPT ![i] = Accumulate(@, ent, unit)]

SkippedByScan(ent) == ent.kind = "BlockReference" \/ IsPlannerLayer(ent.layer)

StrOpenRemark ==                                            \* "OPEN length only"
    <<79, 80, 69, 78, 32, 108, 101, 110, 103, 116, 104, 32, 111, 110, 108, 121>>

StrClosedRemark ==   \* "CLOSED (rectangle): length/width + perimeter & area"
    <<67, 76, 79, 83, 69, 68, 32, 40, 114, 101, 99, 116, 97, 110, 103, 108, 101,
      41, 58, 32, 108, 101, 110, 103, 116, 104, 47, 119, 105, 100, 116, 104, 32,
      43, 32, 112, 101, 114, 105, 109, 101, 116, 101, 114, 32, 38, 32, 97, 114,
      101, 97>>

\* The pair (Lrec, Wrec) SolveRectDimsFromPerimeterArea returns for P and
\* A, left unevaluated: on sums that hold Math.PI its square root has no
\* exact value here, and a row carries P and A themselves besides.
SolvedRect(P, A) == [P |-> P, A |-> A]

NoRect == SolvedRect(Zero, Zero)

OpenRow(a) ==
    [Layer |-> a.Layer, Zone |-> NormalizeZone(a.Zone), Remarks |-> StrOpenRemark,
     LengthFt |-> a.OpenLenFt, Rect |-> NoRect,
     PerimeterFt |-> Zero, AreaFt2 |-> Zero]

ClosedRow(a) ==
    [Layer |-> a.Layer, Zone |-> NormalizeZone(a.Zone), Remarks |-> StrClosedRemark,
     LengthFt |-> Zero, Rect |-> SolvedRect(a.PerimeterFt, a.AreaFt2),
     PerimeterFt |-> a.PerimeterFt, AreaFt2 |-> a.AreaFt2]

\* The rows of one LayerAgg, in the order the loop adds them.
RowsOfAgg(a) ==
    (IF Positive(a.OpenLenFt) THEN <<OpenRow(a)>> ELSE << >>)
    \o (IF Positive(a.PerimeterFt) \/ Positive(a.AreaFt2)
        THEN <<ClosedRow(a)>> ELSE << >>)

RECURSIVE LayerRowsUnsorted(_)
LayerRowsUnsorted(agg) ==
    IF agg = << >> THEN << >>
    ELSE RowsOfAgg(Head(agg)) \o LayerRowsUnsorted(Tail(agg))

\* OrderBy(Layer).ThenBy(Zone).ThenBy(Remarks), OrdinalIgnoreCase.
LayerRowCompare(r1, r2) ==
    LET l == CompareIgnoreCase(r1.Layer, r2.Layer)
        z == CompareIgnoreCase(r1.Zone, r2.Zone)
    IN  IF l # 0 THEN l
        ELSE IF z # 0 THEN z
        ELSE CompareIgnoreCase(r1.Remarks, r2.Remarks)

\* OrderBy is stable: a row goes behind the rows it compares equal to.
RECURSIVE InsertLayerRow(_, _)
InsertLayerRow(r, sorted) ==
    IF sorted = << >> THEN <<r>>
    ELSE IF LayerRowCompare(r, Head(sorted)) < 0 THEN <<r>> \o sorted
    ELSE <<Head(sorted)>> \o InsertLayerRow(r, Tail(sorted))

RECURSIVE OrderLayerRowsFrom(_, _)
OrderLayerRowsFrom(rows, sorted) ==
    IF rows = << >> THEN sorted
    ELSE OrderLayerRowsFrom(Tail(rows), InsertLayerRow(Head(rows), sorted))

BuildLayersSheetLikeRows(agg) == OrderLayerRowsFrom(LayerRowsUnsorted(agg), << >>)

\* The drawings of the layer scan.
MaxEntities == 3

StrWALL == <<87, 65, 76, 76>>                                \* "WALL"

LayerZoneLists == {<< >>, <<ZoneConf, ZoneLab>>}

LayerEntities ==
    << DrawnBox("Polyline", StrWall, TRUE, Pt(2, 2), Pt(6, 6)),
       DrawnBox("Polyline", StrWALL, TRUE, Pt(0, 2), Pt(8, 6)),
       DrawnBox("Polyline3d", StrWall, TRUE, Pt(2, 2), Pt(6, 6)),
       DrawnBox("Polyline2d", StrWall, TRUE, Pt(14, 2), Pt(18, 6)),
       DrawnBox("Polyline", StrWall, FALSE, Pt(2, 2), Pt(6, 6)),
       DrawnBox("Polyline3d", StrWall, FALSE, Pt(14, 2), Pt(18, 6)),
       DrawnLine(StrFurn, Pt(2, 2), Pt(6, 2)),
       DrawnLine(StrFurn, Pt(2, 2), Pt(2, 2)),
       DrawnArc(StrWall, Pt(2, 2), 4, 0),
       DrawnArc(StrWall, Pt(2, 6), 4, 3),
       DrawnCircle(EmptyStr, Pt(10, 2), 4),
       DrawnHatch(StrWall, Pt(2, 2), Pt(6, 6)),
       DrawnOther("DBText", StrFurn, Pt(2, 2), Pt(6, 6)),
       DrawnOther("BlockReference", StrFurn, Pt(2, 2), Pt(6, 6)),
       DrawnBox("Polyline", StrPlanner, TRUE, Pt(0, 0), Pt(8, 8)) >>

LayerDrawings == PicksEitherWay(LayerEntities, MaxEntities)

\* VisJsonNetCommand of the later variant, at the call of
\* ComputeNonBlockLayerMetrics(tr, ms, zones, unitToFt, layerAgg).
InitLayers ==
    /\ headless = TRUE
    /\ zones \in LayerZoneLists
    /\ drawing \in LayerDrawings
    /\ layerTable = LayersOf(drawing)
    /\ processed = << >>
    /\ allGrouped = << >>
    /\ visGrouped = << >>
    /\ totalInserts = 0
    /\ dynamicProcessed = 0
    /\ visKept = 0
    /\ pc = "scan"
    /\ sheetRows = << >>
    /\ run = 1
    /\ firstRows = << >>
    /\ NoCall
    /\ unitToFt \in UnitToFtValues
    /\ scanned = 0
    /\ layerAgg = << >>
    /\ layerRows = << >>

\* The entity the loop over model space is at.
AtEntity == drawing[scanned + 1]

\* if (ent is BlockReference) continue; if (IsPlannerLayer(ent.Layer)) continue;
SkipEntity ==
    /\ pc = "scan"
    /\ scanned < Len(drawing)
    /\ SkippedByScan(AtEntity)
    /\ scanned' = scanned + 1
    /\ UNCHANGED <<runVars, callVars, unitToFt, layerAgg, layerRows>>

ScanEntity ==
    /\ pc = "scan"
    /\ scanned < Len(drawing)
    /\ ~SkippedByScan(AtEntity)
    /\ layerAgg' = ScanInto(layerAgg, AtEntity, zones, unitToFt)
    /\ scanned' = scanned + 1
    /\ UNCHANGED <<runVars, callVars, unitToFt, layerRows>>

\* var layerRows = BuildLayersSheetLikeRows(layerAgg)
BuildLayerRows ==
    /\ pc = "scan"
    /\ scanned = Len(drawing)
    /\ layerRows' = BuildLayersSheetLikeRows(layerAgg)
    /\ pc' = "rows"
    /\ UNCHANGED <<headless, zones, drawing, layerTable, processed, allGrouped,
                   visGrouped, totalInserts, dynamicProcessed, visKept, sheetRows,
                   run, firstRows, callVars, unitToFt, scanned, layerAgg>>

NextLayers == SkipEntity \/ ScanEntity \/ BuildLayerRows

SpecLayers == InitLayers /\ [][NextLayers]_vars

(***************************************************************************)
(* Properties of a run.                                                    *)
(***************************************************************************)
\* Equality of two strings under case folding, stated on their characters.
SameFolded(a, b) ==
    /\ Len(a) = Len(b)
    /\ \A i \in 1..Len(a) : ToUpperChar(a[i]) = ToUpperChar(b[i])

Blank(s) == \A i \in 1..Len(s) : IsWhiteSpaceChar(s[i])

\* The placements of the pass so far that are not on the planner layer.
Counted == {i \in 1..Len(processed) : ~IsPlannerLayer(processed[i].br.layer)}

OfType(name) == {i \in Counted : SameFolded(processed[i].br.name, name)}

\* The sentinel zone of the variant that runs.
Sentinel == IF headless THEN StrMisc ELSE StrUnmarkedArea

\* The zone a placement was seen in: the zone it resolved to and, in the
\* later variant, the sentinel when it resolved to none.
SeenZone(i) ==
    IF headless /\ Blank(processed[i].zone) THEN StrMisc ELSE processed[i].zone

RowsOfType(name) == {k \in 1..Len(sheetRows) : SameFolded(sheetRows[k].BoqName, name)}

RECURSIVE SumQty(_)
SumQty(ks) ==
    IF ks = {} THEN 0
    ELSE LET k == CHOOSE x \in ks : TRUE
         IN  sheetRows[k].QtyValue + SumQty(ks \ {k})

\* C1: no placement is dropped by the emitter: for every placement type the
\* quantities of its records sum to the number of non-planner placements
\* of that type, those that matched no zone being under the sentinel zone.
C1_NoPlacementDropped ==
    pc = "done" =>
        \A i \in Counted :
            LET name     == processed[i].br.name
                unzoned  == {j \in OfType(name) : Blank(processed[j].zone)}
                sentRows == {k \in RowsOfType(name) : SameFolded(sheetRows[k].Zone, Sentinel)}
            IN  /\ SumQty(RowsOfType(name)) = Cardinality(OfType(name))
                /\ unzoned # {} => SumQty(sentRows) = Cardinality(unzoned)

\* C2: a group none of whose placements resolved to a zone produces exactly
\* one record, with the sentinel zone and the group's total count; a group
\* with a resolved zone produces one record per distinct zone seen, with
\* the number of placements seen in that zone.
C2_GroupRecords ==
    pc = "done" =>
        \A i \in Counted :
            LET name  == processed[i].br.name
                group == OfType(name)
                rows  == RowsOfType(name)
                zoned == {j \in group : ~Blank(SeenZone(j))}
            IN  IF \A j \in group : Blank(processed[j].zone)
                THEN /\ Cardinality(rows) = 1
                     /\ \A k \in rows :
                          /\ sheetRows[k].Zone = Sentinel
                          /\ sheetRows[k].QtyValue = Cardinality(group)
                ELSE /\ \A j \in zoned :
                          Cardinality({k \in rows :
                              SameFolded(sheetRows[k].Zone, SeenZone(j))}) = 1
                     /\ \A k \in rows :
                          /\ sheetRows[k].QtyValue > 0
                          /\ sheetRows[k].QtyValue =
                               Cardinality({j \in zoned :
                                   SameFolded(SeenZone(j), sheetRows[k].Zone)})

\* A run in which one type was seen in two zones and another in none.
C2_Witness ==
    /\ pc = "done"
    /\ \E i \in Counted, j \in Counted :
          /\ Cardinality(RowsOfType(processed[i].br.name)) = 2
          /\ \A k \in OfType(processed[j].br.name) : Blank(processed[k].zone)
          /\ \E k \in RowsOfType(processed[j].br.name) : sheetRows[k].Zone = Sentinel

Sorted(rows, Cmp(_, _)) == \A k \in 1..(Len(rows) - 1) : Cmp(rows[k], rows[k + 1]) <= 0

\* C3, as claimed: the records are sorted ascending, case-insensitively, by
\* (type name, zone name).
C3_SortedByNameZone == pc = "done" => Sorted(sheetRows, RowCompareNameZone)

ProductNameZoneCompare(r1, r2) ==
    LET p == CompareOrdinal(ToUpper(r1.Product), ToUpper(r2.Product))
        n == CompareOrdinal(ToUpper(r1.BoqName), ToUpper(r2.BoqName))
        z == CompareOrdinal(ToUpper(r1.Zone), ToUpper(r2.Zone))
    IN  IF p # 0 THEN p ELSE IF n # 0 THEN n ELSE z

\* C3, amended: the records are sorted ascending, case-insensitively, by
\* (product, type name, zone name).
C3_SortedByProductNameZone == pc = "done" => Sorted(sheetRows, ProductNameZoneCompare)

\* A run whose records left the groups in another order than the sorted one.
C3_Witness ==
    /\ pc = "done"
    /\ Len(sheetRows) >= 2
    /\ sheetRows # BuildSheetLikeRowsUnsorted(allGrouped, headless)

VisKey(i) == processed[i].br.name \o StrBarBar \o processed[i].br.vis

VisCounted == {i \in Counted : processed[i].br.dyn /\ ~Blank(processed[i].br.vis)}

\* C10: group keys merge case-insensitively: placements whose type names
\* differ only in case are in one AllAgg group, zone names that differ only
\* in case in one zone count, (type, visibility) keys that differ only in
\* case in one VisAgg group; and no two records have the same (type name,
\* zone name) under case folding.
C10_KeysMergeCaseInsensitively ==
    /\ \A i \in Counted :
          LET gs == {g \in 1..Len(allGrouped) :
                        SameFolded(allGrouped[g].BlockName, processed[i].br.name)}
          IN  /\ Cardinality(gs) = 1
              /\ \A g \in gs :
                    /\ allGrouped[g].TotalCount =
                         Cardinality(OfType(processed[i].br.name))
                    /\ ~Blank(SeenZone(i)) =>
                         LET zs == {z \in 1..Len(allGrouped[g].ZoneCounts) :
                                      SameFolded(allGrouped[g].ZoneCounts[z].key, SeenZone(i))}
                         IN  /\ Cardinality(zs) = 1
                             /\ \A z \in zs :
                                  allGrouped[g].ZoneCounts[z].n =
                                    Cardinality({j \in OfType(processed[i].br.name) :
                                                   SameFolded(SeenZone(j), SeenZone(i))})
    /\ \A i \in VisCounted :
          LET vs == {v \in 1..Len(visGrouped) : SameFolded(visGrouped[v].key, VisKey(i))}
          IN  /\ Cardinality(vs) = 1
              /\ \A v \in vs :
                    visGrouped[v].TableCount =
                      Cardinality({j \in VisCounted : SameFolded(VisKey(j), VisKey(i))})
    /\ \A k1 \in 1..Len(sheetRows), k2 \in 1..Len(sheetRows) :
          (/\ SameFolded(sheetRows[k1].BoqName, sheetRows[k2].BoqName)
           /\ SameFolded(sheetRows[k1].Zone, sheetRows[k2].Zone)) => k1 = k2

\* A run that saw one type and one zone under two spellings each, and one
\* (type, visibility) key under two spellings.
C10_Witness ==
    /\ pc = "done"
    /\ \E i \in Counted, j \in Counted :
          /\ processed[i].br.name # processed[j].br.name
          /\ SameFolded(processed[i].br.name, processed[j].br.name)
          /\ processed[i].zone # processed[j].zone
          /\ ~Blank(processed[i].zone)
          /\ SameFolded(processed[i].zone, processed[j].zone)
    /\ \E i \in VisCounted, j \in VisCounted :
          VisKey(i) # VisKey(j) /\ SameFolded(VisKey(i), VisKey(j))

\* C11: a second run on the same drawing, zones and unit, its aggregation
\* state empty at the start, writes the sheet rows the first run wrote:
\* the same records, with the same fields, in the same order.
C11_RerunIdentical == (run = 2 /\ pc = "done") => sheetRows = firstRows

\* A second run has ended, on a drawing the first run moved a planner
\* placement of, and wrote several rows.
C11_Witness ==
    /\ run = 2
    /\ pc = "done"
    /\ headless
    /\ Len(sheetRows) >= 2
    /\ \E i \in 1..Len(drawing) : IsPlannerLayer(drawing[i].layer)

\* C12: a run never changes its input: no step changes an attribute of an
\* entity of the drawing, its layer in particular, nor the entities the
\* drawing holds.
C12_DrawingUnchanged == [][drawing' = drawing]_vars

\* The placements a group was aggregated from.
AllMembers(g) == {i \in Counted : SameFolded(processed[i].br.name, g.key)}

VisMembers(g) == {i \in VisCounted : SameFolded(VisKey(i), g.key)}

RowMembers(r) == {i \in Counted : SameFolded(processed[i].br.name, r.BoqName)}

Finalized == pc \in {"finalized", "done"}

\* C18, as claimed: after finalization every group and every record has
\* lengthFt >= widthFt >= 0.
C18_LengthAtLeastWidthAlways ==
    Finalized =>
        /\ \A i \in 1..Len(allGrouped) :
              allGrouped[i].LengthFt >= allGrouped[i].WidthFt /\ allGrouped[i].WidthFt >= 0
        /\ \A i \in 1..Len(visGrouped) :
              visGrouped[i].LengthFt >= visGrouped[i].WidthFt /\ visGrouped[i].WidthFt >= 0
        /\ \A k \in 1..Len(sheetRows) :
              sheetRows[k].LengthFt >= sheetRows[k].WidthFt /\ sheetRows[k].WidthFt >= 0

\* No placement among ms has a positive length and a zero width.
NoFlatPlacement(ms) == \A i \in ms : processed[i].br.len > 0 => processed[i].br.wid > 0

OrderedSize(x, ms) ==
    /\ x.LengthFt >= 0
    /\ x.WidthFt >= 0
    /\ NoFlatPlacement(ms) => x.LengthFt >= x.WidthFt

\* C18, amended: after finalization every group and every record has
\* lengthFt >= 0 and widthFt >= 0, and lengthFt >= widthFt when no
\* placement aggregated into the group has a zero width and a positive
\* length.
C18_LengthAtLeastWidth ==
    Finalized =>
        /\ \A i \in 1..Len(allGrouped) : OrderedSize(allGrouped[i], AllMembers(allGrouped[i]))
        /\ \A i \in 1..Len(visGrouped) : OrderedSize(visGrouped[i], VisMembers(visGrouped[i]))
        /\ \A k \in 1..Len(sheetRows) : OrderedSize(sheetRows[k], RowMembers(sheetRows[k]))

\* A group of several placements of different sizes, none of them flat,
\* has been finalized and written.
C18_Witness ==
    /\ pc = "done"
    /\ \E i \in 1..Len(allGrouped) :
          /\ Len(allGrouped[i].LenFts) >= 2
          /\ allGrouped[i].LenFts[1] # allGrouped[i].LenFts[2]
          /\ NoFlatPlacement(AllMembers(allGrouped[i]))
          /\ allGrouped[i].LengthFt > allGrouped[i].WidthFt
    /\ \E i \in 1..Len(visGrouped) : Len(visGrouped[i].LenFts) >= 2

(***************************************************************************)
(* Properties of the functions.                                            *)
(***************************************************************************)
Returned(f) == fn = f /\ done

InSomeZone(pt, zs) == \E k \in 1..Len(zs) : PointInPolygon(pt, zs[k].Poly)

\* The names of the zones that contain a point.
ZonesAt(pt, zs) == {zs[k].Name : k \in {j \in 1..Len(zs) : PointInPolygon(pt, zs[j].Poly)}}

BoxCentroid(ext) ==
    Pt((ext.min[1] + ext.max[1]) \div 2, (ext.min[2] + ext.max[2]) \div 2)

\* The primary representative points of an entity: the midpoint of a line,
\* the centre of an arc or a circle; a polyline or a hatch has none.
PrimaryPoints(ent) ==
    IF ent.kind = "Line"
    THEN {Pt((ent.p1[1] + ent.p2[1]) \div 2, (ent.p1[2] + ent.p2[2]) \div 2)}
    ELSE IF ent.kind \in {"Arc", "Circle"} THEN {ent.centre}
    ELSE {}

\* The fallback chain on primary points ps and extents ext: when no primary
\* point is in a zone and the bounding-box centroid is in zone Z, the
\* result is Z.
FallbackHolds(ps, ext, zs, result) ==
    (/\ ext.has
     /\ \A p \in ps : ~InSomeZone(p, zs)
     /\ InSomeZone(BoxCentroid(ext), zs))
    => result \in ZonesAt(BoxCentroid(ext), zs)

\* C4: zone fallback chain, for placements and for lines, arcs, circles,
\* polylines and hatches: an entity whose primary point is in no zone and
\* whose bounding-box centroid is inside zone Z is assigned Z.
C4_FallbackChain ==
    /\ Returned("ResolveZoneForBlockRef") =>
          FallbackHolds({arg.br.pos}, arg.br.ext, arg.zones, ret)
    /\ Returned("ResolveZoneForEntity") =>
          FallbackHolds(PrimaryPoints(arg.ent), arg.ent.ext, arg.zones, ret)

StrictlyInside(pt, b) ==
    b.minX < pt[1] /\ pt[1] < b.maxX /\ b.minY < pt[2] /\ pt[2] < b.maxY

StrictlyOutside(pt, b) ==
    pt[1] < b.minX \/ pt[1] > b.maxX \/ pt[2] < b.minY \/ pt[2] > b.maxY

\* The unit square, in half units.
UnitSquare == [minX |-> 0, minY |-> 0, maxX |-> 2, maxY |-> 2]

\* C5: PointInPolygon on an axis-aligned rectangle is true for every
\* strictly interior point and false for every strictly exterior point; on
\* the unit square it is true for (0.5, 0.5) and false for (1.5, 0.5).
C5_PointInRectangle ==
    Returned("PointInPolygon") =>
        /\ StrictlyInside(arg.pt, arg.box) => ret = TRUE
        /\ StrictlyOutside(arg.pt, arg.box) => ret = FALSE
        /\ (arg.box = UnitSquare /\ arg.pt = Pt(1, 1)) => ret = TRUE
        /\ (arg.box = UnitSquare /\ arg.pt = Pt(3, 1)) => ret = FALSE

\* The call on the unit square and (0.5, 0.5), from the vertex list of the
\* claim, has returned.
C5_Witness ==
    /\ Returned("PointInPolygon")
    /\ arg.poly = <<Pt(0, 0), Pt(2, 0), Pt(2, 2), Pt(0, 2)>>
    /\ arg.pt = Pt(1, 1)
    /\ ret = TRUE

\* The number of samples of xs below v, and not above v.
Below(xs, v) == Cardinality({i \in 1..Len(xs) : xs[i] < v})

NotAbove(xs, v) == Cardinality({i \in 1..Len(xs) : xs[i] <= v})

\* The k-th smallest sample of xs (k from 1), by rank: it depends on the
\* samples and not on their order.
Ranked(xs, k) ==
    CHOOSE v \in {xs[i] : i \in 1..Len(xs)} : Below(xs, v) < k /\ k <= NotAbove(xs, v)

\* C6: Median(xs) is 0 for the empty list, the middle sample of the sorted
\* list when the length is odd and the mean of the two central samples when
\* it is even, whatever the order of the samples: [1,2,3,4] gives 2.5.
C6_MedianReduction ==
    Returned("Median") =>
        LET xs == arg.xs
            n  == Len(xs)
        IN  /\ n = 0 => ret = 0
            /\ (n > 0 /\ n % 2 = 1) => ret = Ranked(xs, (n + 1) \div 2)
            /\ (n > 0 /\ n % 2 = 0) =>
                  2 * ret = Ranked(xs, n \div 2) + Ranked(xs, (n \div 2) + 1)
            /\ xs = <<10>> => ret = 10
            /\ (n = 4 /\ {xs[i] : i \in 1..n} = {2, 4, 6, 8}) => ret = 5

\* The samples 1, 2, 3, 4 ft, appended out of order, reduced to 2.5 ft.
C6_Witness == Returned("Median") /\ arg.xs = <<8, 2, 6, 4>> /\ ret = 5

\* C7: round trip of the rectangle solver: for L, W > 0 the solver on
\* (2(L+W), L*W) returns length max(L,W) and width min(L,W).
C7_RectRoundTrip ==
    Returned("SolveRectDimsFromPerimeterArea") =>
        \A L \in 1..MaxSide, W \in 1..MaxSide :
            (arg.P = 2 * (L + W) /\ arg.A = L * W) =>
                ret = [L4 |-> 4 * MaxOf(L, W), W4 |-> 4 * MinOf(L, W)]

\* The solver has returned on the perimeter and area of a 1 by 3 rectangle.
C7_Witness ==
    /\ Returned("SolveRectDimsFromPerimeterArea")
    /\ arg = [P |-> 8, A |-> 3]
    /\ ret = [L4 |-> 12, W4 |-> 4]

\* L >= W > 0, L + W = S and L * W = A, on the quarter units of the result.
SolvesRect(r, P, A) ==
    r.L4 >= r.W4 /\ r.W4 > 0 /\ r.L4 + r.W4 = 2 * P /\ r.L4 * r.W4 = 16 * A

\* C8, as claimed: with S = P/2 and D = S*S - 4A the solver returns (0,0)
\* whenever P <= 0, A <= 0 or D < 0, and in every other case (L,W) with
\* L >= W > 0, L + W = S and L * W = A.
C8_DegenerateAsClaimed ==
    Returned("SolveRectDimsFromPerimeterArea") =>
        LET D4 == arg.P * arg.P - 16 * arg.A
        IN  IF arg.P <= 0 \/ arg.A <= 0 \/ D4 < 0 THEN ret = RectZero
            ELSE SolvesRect(ret, arg.P, arg.A)

\* C8, amended: the solver returns (0,0) whenever P <= 0, A <= 0 or
\* D < -1e-9; for -1e-9 <= D < 0 it takes D as 0 and returns (S/2, S/2);
\* in every other case it returns (L,W) with L >= W > 0, L + W = S and
\* L * W = A.
C8_Degenerate ==
    Returned("SolveRectDimsFromPerimeterArea") =>
        LET D4 == arg.P * arg.P - 16 * arg.A
        IN  IF arg.P <= 0 \/ arg.A <= 0 \/ D4 < -4 * RectTol THEN ret = RectZero
            ELSE IF D4 < 0 THEN ret = [L4 |-> arg.P, W4 |-> arg.P]
            ELSE SolvesRect(ret, arg.P, arg.A)

\* The solver has returned on a perimeter and an area whose discriminant
\* is negative within the tolerance, and on ones where it is beyond it.
C8_Witness ==
    /\ Returned("SolveRectDimsFromPerimeterArea")
    /\ arg.P > 0
    /\ arg.A > 0
    /\ arg.P * arg.P - 16 * arg.A < 0
    /\ arg.P * arg.P - 16 * arg.A >= -4 * RectTol
    /\ ret = [L4 |-> arg.P, W4 |-> arg.P]

\* The factor ten to the k times f.
TimesTenTo(f, k) == [f EXCEPT !.places = @ - k]

\* 0.003280839895013123
MillimeterFactor == Factor(<<3, 2, 8, 0, 8, 3, 9, 8, 9, 5, 0, 1, 3, 1, 2, 3>>, 18, 1)

SupportedUnits ==
    {"Feet", "Inches", "Millimeters", "Centimeters", "Meters", "Kilometers",
     "Yards", "Miles"}

\* C9: GetScaleToFeet returns the fixed factor of each supported unit, and
\* 1.0 for Undefined, for every other unit value and when reading the unit
\* fails.
C9_UnitFactors ==
    Returned("GetScaleToFeet") =>
        LET u == arg.u
        IN  IF arg.readFails \/ u \notin SupportedUnits THEN ret = Factor(<<1>>, 0, 1)
            ELSE /\ u = "Feet"        => ret = Factor(<<1>>, 0, 1)
                 /\ u = "Inches"      => ret = Factor(<<1>>, 0, 12)
                 /\ u = "Millimeters" => ret = MillimeterFactor
                 /\ u = "Centimeters" => ret = TimesTenTo(MillimeterFactor, 1)
                 /\ u = "Meters"      => ret = TimesTenTo(MillimeterFactor, 3)
                 /\ u = "Kilometers"  => ret = TimesTenTo(TimesTenTo(MillimeterFactor, 3), 3)
                 /\ u = "Yards"       => ret = Factor(<<3>>, 0, 1)
                 /\ u = "Miles"       => ret = Factor(<<5, 2, 8, 0>>, 0, 1)

\* The converter has returned 1.0 for a unit it has no case for.
C9_Witness ==
    /\ Returned("GetScaleToFeet")
    /\ ~arg.readFails
    /\ arg.u \notin SupportedUnits \cup {"Undefined"}
    /\ ret = Factor(<<1>>, 0, 1)

\* The choice the claim describes for a bucket of n values, k of them
\* numbers: numeric if and only if 2k >= n.
ClaimedChoice(vals) ==
    LET nums == ParsedNumbers(vals)
    IN  IF 2 * Len(nums) >= Len(vals) THEN NumericChoice(nums)
        ELSE CategoricalChoice(vals)

RECURSIVE ClaimedParts(_)
ClaimedParts(ordered) ==
    IF ordered = << >> THEN << >>
    ELSE LET b      == Head(ordered)
             chosen == ClaimedChoice(b.vals)
         IN  (IF b.vals # << >> /\ ~Blank(chosen)
              THEN <<b.key \o <<61>> \o chosen>> ELSE << >>)
             \o ClaimedParts(Tail(ordered))

\* C14: a non-empty bucket of n values of which k parse as numbers is
\* reduced to the median of its k numbers if and only if 2k >= n, and
\* otherwise to its most frequent value.
C14_BucketReduction ==
    Returned("BuildConfigStringFromBuckets") =>
        ret = JoinParts(ClaimedParts(OrderBuckets(arg.buckets)))

\* The vertices of a polygon.
Vertices(poly) == {poly[i] : i \in 1..Len(poly)}

\* C15: every zone polygon CollectPlannerZones returns, from a planner
\* placement's bounding box or from a closed polyline, has at least three
\* distinct vertices, and a last vertex that differs from its first.
C15_ZonePolygons ==
    Returned("CollectPlannerZones") =>
        \A k \in 1..Len(ret.outZones) :
            LET poly == ret.outZones[k].Poly
            IN  Cardinality(Vertices(poly)) >= 3 /\ poly[Len(poly)] # poly[1]

\* The loops and the labels of a call, and where the loops are in zones.
LoopsOf(a) == PolylineZones(a.polylines)

LabelsOf(a) == CollectLabels(a.texts, a.headless)

LoopOffset(a) == Len(InsertZones(a.inserts))

LoopName(a, r, k) == r.zones[LoopOffset(a) + k].Name

\* The labels the loops before the k-th have taken, under the taking t
\* (t[j] is the label loop j takes, 0 for none).
TakenBefore(t, k) == {t[j] : j \in 1..(k - 1)} \ {0}

UnusedAt(a, t, k) == (1..Len(LabelsOf(a))) \ TakenBefore(t, k)

InsideAt(a, t, k) ==
    {i \in UnusedAt(a, t, k) : PointInPolygon(LabelsOf(a)[i].pos, LoopsOf(a)[k].Poly)}

\* Label i is nearest to the centroid of loop k among those of ls, and the
\* earliest of the nearest.
NearestAmong(a, ls, k, i) ==
    /\ i \in ls
    /\ \A j \in ls :
          LET di == Dist2(LabelsOf(a)[i].pos, LoopsOf(a)[k].Poly)
              dj == Dist2(LabelsOf(a)[j].pos, LoopsOf(a)[k].Poly)
          IN  di < dj \/ (di = dj /\ i <= j)

\* t follows the chain at loop k: the first unused label inside, else the
\* nearest unused label, else none.
FollowsChain(a, t, k) ==
    LET unused == UnusedAt(a, t, k)
        inside == InsideAt(a, t, k)
    IN  IF inside # {} THEN t[k] \in inside /\ \A j \in inside : t[k] <= j
        ELSE IF unused # {} THEN NearestAmong(a, unused, k, t[k])
        ELSE t[k] = 0

Takings(a) ==
    {t \in [1..Len(LoopsOf(a)) -> 0..Len(LabelsOf(a))] :
        \A k \in 1..Len(LoopsOf(a)) : FollowsChain(a, t, k)}

\* "Zone NN"
Synthesized(name) ==
    /\ Len(name) = Len(StrZone) + 2
    /\ SubSeq(name, 1, Len(StrZone)) = StrZone
    /\ \A i \in (Len(StrZone) + 1)..Len(name) : name[i] \in 48..57

\* C16: each loop polygon, in enumeration order, is named by the first
\* label not yet used whose anchor is inside it; if there is none, by the
\* label not yet used nearest to its vertex-average centroid, the earliest
\* at equal distance; and by 'Zone NN' only if no label is left.
C16_LoopNaming ==
    Returned("CollectPlannerZones") =>
        /\ Len(ret.zones) = LoopOffset(arg) + Len(LoopsOf(arg))
        /\ \E t \in Takings(arg) :
              \A k \in 1..Len(LoopsOf(arg)) :
                  IF t[k] > 0 THEN LoopName(arg, ret, k) = LabelsOf(arg)[t[k]].txt
                  ELSE Synthesized(LoopName(arg, ret, k))

\* One loop was named by the nearest label and the next by 'Zone NN'.
C16_Witness ==
    /\ Returned("CollectPlannerZones")
    /\ Len(LoopsOf(arg)) = 2
    /\ Len(LabelsOf(arg)) = 1
    /\ ~PointInPolygon(LabelsOf(arg)[1].pos, LoopsOf(arg)[1].Poly)
    /\ LoopName(arg, ret, 1) = LabelsOf(arg)[1].txt
    /\ Synthesized(LoopName(arg, ret, 2))

\* A label is anchored inside loop k.
HasLabelInside(a, k) ==
    \E i \in 1..Len(LabelsOf(a)) : PointInPolygon(LabelsOf(a)[i].pos, LoopsOf(a)[k].Poly)

NamedFromInside(a, r, k) ==
    \E i \in 1..Len(LabelsOf(a)) :
        /\ PointInPolygon(LabelsOf(a)[i].pos, LoopsOf(a)[k].Poly)
        /\ LoopName(a, r, k) = LabelsOf(a)[i].txt

\* C17, as claimed: a loop polygon that contains the anchor of a label is
\* named with the text of a label anchored inside it.
C17_LabelInsideWins ==
    Returned("CollectPlannerZones") =>
        \A k \in 1..Len(LoopsOf(arg)) : HasLabelInside(arg, k) => NamedFromInside(arg, ret, k)

\* C17, amended: a loop polygon that contains the anchor of a label that
\* no earlier loop polygon has taken is named with the text of a label
\* anchored inside it.
C17_UnusedLabelInsideWins ==
    Returned("CollectPlannerZones") =>
        \A t \in Takings(arg) :
            \A k \in 1..Len(LoopsOf(arg)) :
                InsideAt(arg, t, k) # {} => NamedFromInside(arg, ret, k)

\* A loop with a label not yet used inside, and a nearer one outside, was
\* named from the inside.
C17_Witness ==
    /\ Returned("CollectPlannerZones")
    /\ \E t \in Takings(arg) :
          \E k \in 1..Len(LoopsOf(arg)) :
              /\ InsideAt(arg, t, k) # {}
              /\ \E j \in UnusedAt(arg, t, k) \ InsideAt(arg, t, k) :
                    /\ Dist2(LabelsOf(arg)[j].pos, LoopsOf(arg)[k].Poly)
                           < Dist2(LabelsOf(arg)[t[k]].pos, LoopsOf(arg)[k].Poly)
                    /\ LoopName(arg, ret, k) # LabelsOf(arg)[j].txt
              /\ NamedFromInside(arg, ret, k)

\* The point is within the bounding box of the polygon, off its edges.
WithinBox(pt, poly) ==
    /\ \E i, j \in 1..Len(poly) : poly[i][1] < pt[1] /\ pt[1] < poly[j][1]
    /\ \E i, j \in 1..Len(poly) : poly[i][2] < pt[2] /\ pt[2] < poly[j][2]

RECURSIVE BoxesOf(_)
BoxesOf(inserts) ==
    IF inserts = << >> THEN << >>
    ELSE <<RectPoly(Head(inserts).ext.min[1], Head(inserts).ext.min[2],
                    Head(inserts).ext.max[1], Head(inserts).ext.max[2])>>
         \o BoxesOf(Tail(inserts))

\* C19: the zone list holds the zones of the planner placements, in
\* enumeration order, before those of the loops, in enumeration order;
\* ZoneForPoint returns the name of the first zone of the list that
\* contains the point, and the empty name only when none does.
C19_FirstMatchWins ==
    Returned("ZoneForPoint") =>
        LET zs   == arg.zones
            hits == {i \in 1..Len(zs) : Len(zs[i].Poly) >= 3 /\ WithinBox(arg.pt, zs[i].Poly)}
        IN  /\ [i \in 1..Len(zs) |-> zs[i].Poly]
                 = BoxesOf(arg.inserts) \o [i \in 1..Len(arg.polylines) |-> arg.polylines[i].pts]
            /\ hits = {} => ret = EmptyStr
            /\ hits # {} => \E i \in hits : ret = zs[i].Name /\ \A j \in hits : i <= j
            /\ ret = EmptyStr => hits = {}

\* The point is in a loop zone and in two placement zones, and the name
\* returned is that of the first placement zone.
C19_Witness ==
    /\ Returned("ZoneForPoint")
    /\ Len(arg.inserts) = 2
    /\ Len(arg.polylines) >= 1
    /\ Cardinality({i \in 1..Len(arg.zones) : WithinBox(arg.pt, arg.zones[i].Poly)}) >= 3
    /\ ret = arg.zones[1].Name
    /\ ret # arg.zones[2].Name

(***************************************************************************)
(* Properties of the layer scan.                                           *)
(***************************************************************************)
\* What one entity alone adds to the accumulators of its group.
Contribution(ent) == Accumulate(NewLayerAgg(KeyOfEntity(ent, zones)), ent, unitToFt)

\* The entities visited so far that belong to the group of key k.
MembersOfGroup(k) ==
    {i \in 1..scanned :
        ~SkippedByScan(drawing[i]) /\ KeyEquals(KeyOfEntity(drawing[i], zones), k)}

\* The group's samples of one accumulator among the first i entities, in
\* the order of the scan: the contributions that are > 0.
RECURSIVE PerimeterSamples(_, _)
PerimeterSamples(i, k) ==
    IF i = 0 THEN << >>
    ELSE PerimeterSamples(i - 1, k)
         \o (IF i \in MembersOfGroup(k) /\ Positive(Contribution(drawing[i]).PerimeterFt)
             THEN <<Contribution(drawing[i]).PerimeterFt>> ELSE << >>)

RECURSIVE AreaSamples(_, _)
AreaSamples(i, k) ==
    IF i = 0 THEN << >>
    ELSE AreaSamples(i - 1, k)
         \o (IF i \in MembersOfGroup(k) /\ Positive(Contribution(drawing[i]).AreaFt2)
             THEN <<Contribution(drawing[i]).AreaFt2>> ELSE << >>)

RECURSIVE InsertMeasure(_, _)
InsertMeasure(x, sorted) ==
    IF sorted = << >> THEN <<x>>
    ELSE IF Scaled(x) <= Scaled(Head(sorted)) THEN <<x>> \o sorted
    ELSE <<Head(sorted)>> \o InsertMeasure(x, Tail(sorted))

RECURSIVE SortMeasures(_)
SortMeasures(xs) ==
    IF xs = << >> THEN << >>
    ELSE InsertMeasure(Head(xs), SortMeasures(Tail(xs)))

\* Twice the median of a list of measures: the middle one doubled, or the
\* sum of the two middle ones; zero for the empty list.
TwiceMedian(xs) ==
    IF xs = << >> THEN Zero
    ELSE LET ys == SortMeasures(xs)
             n  == Len(ys)
         IN  IF n % 2 = 1 THEN Plus(ys[(n \div 2) + 1], ys[(n \div 2) + 1])
             ELSE Plus(ys[n \div 2], ys[(n \div 2) + 1])

ClosedRows == {i \in 1..Len(layerRows) : layerRows[i].Remarks = StrClosedRemark}

RowKey(r) == ZoneLayerKey(r.Zone, r.Layer)

\* C13: once the layer rows are built, the perimeter and the area of every
\* closed row are the medians of the closed perimeters and of the closed
\* areas that the entities of the row's (zone, layer) group contributed.
C13_ClosedRowsAreMedians ==
    pc = "rows" =>
        \A i \in ClosedRows :
            LET r == layerRows[i]
            IN  /\ Plus(r.PerimeterFt, r.PerimeterFt)
                     = TwiceMedian(PerimeterSamples(scanned, RowKey(r)))
                /\ Plus(r.AreaFt2, r.AreaFt2)
                     = TwiceMedian(AreaSamples(scanned, RowKey(r)))

\* The LayerAgg of key k in a dictionary, the empty one when it has none.
AggOf(agg, k) ==
    IF AggIndex(agg, k) = {} THEN NewLayerAgg(k)
    ELSE agg[CHOOSE j \in AggIndex(agg, k) : TRUE]

SameSums(a, b) ==
    /\ a.OpenLenFt = b.OpenLenFt
    /\ a.PerimeterFt = b.PerimeterFt
    /\ a.AreaFt2 = b.AreaFt2

\* What the host measures on a closed entity: its path length and the
\* area it encloses.
ClosedPerimeterOf(ent) ==
    IF ent.kind = "Circle" THEN CirclePerimeterFt(ent, unitToFt) ELSE LenFt(ent, unitToFt)

ClosedAreaOf(ent) ==
    IF ent.kind = "Circle" THEN CircleAreaFt2(ent, unitToFt) ELSE AreaFt2(ent, unitToFt)

Polylines == {"Polyline", "Polyline2d", "Polyline3d"}

\* The claimed effect of the entity ent on its own group, from a to b.
ClaimedEffect(ent, a, b) ==
    /\ ent.kind \in {"Line", "Arc"} =>
           b.PerimeterFt = a.PerimeterFt /\ b.AreaFt2 = a.AreaFt2
    /\ ent.kind \in Polylines /\ ~ent.Closed =>
           b.PerimeterFt = a.PerimeterFt /\ b.AreaFt2 = a.AreaFt2
    /\ ent.kind = "Hatch" =>
           b.PerimeterFt = a.PerimeterFt /\ b.OpenLenFt = a.OpenLenFt
    /\ ent.kind = "Circle" \/ (ent.kind \in Polylines /\ ent.Closed) =>
           /\ b.PerimeterFt = Plus(a.PerimeterFt, ClosedPerimeterOf(ent))
           /\ b.AreaFt2 = Plus(a.AreaFt2, ClosedAreaOf(ent))

\* C20: a step of the scan changes the accumulators of the entity's own
\* group as its class prescribes (Line, Arc and open polylines: open
\* length only; Hatch: area only; Circle and closed polylines of the three
\* classes: perimeter and area both), and of no other group.
C20_PerKindAccumulation ==
    [][pc = "scan" /\ scanned' = scanned + 1 /\ ~SkippedByScan(AtEntity) =>
           LET k == KeyOfEntity(AtEntity, zones)
           IN  /\ ClaimedEffect(AtEntity, AggOf(layerAgg, k), AggOf(layerAgg', k))
               /\ \A i \in 1..Len(layerAgg) :
                      ~KeyEquals(layerAgg[i].key, k) =>
                          /\ AggIndex(layerAgg', layerAgg[i].key) # {}
                          /\ SameSums(layerAgg[i], AggOf(layerAgg', layerAgg[i].key))]_vars

\* The counter-clockwise sweep from the start angle to the end angle, in
\* quarter turns.
SubtendedAngle(ent) ==
    IF ent.EndAngle >= ent.StartAngle THEN ent.EndAngle - ent.StartAngle
    ELSE ent.EndAngle - ent.StartAngle + 4

\* C21: a step of the scan on an arc adds |radius * subtended angle| *
\* unit factor to the open length of the arc's group, the subtended angle
\* being the counter-clockwise sweep from start to end, and leaves the
\* group's perimeter and area as they were.
C21_ArcLength ==
    [][pc = "scan" /\ scanned' = scanned + 1 /\ ~SkippedByScan(AtEntity)
         /\ AtEntity.kind = "Arc" =>
           LET k == KeyOfEntity(AtEntity, zones)
               a == AggOf(layerAgg, k)
               b == AggOf(layerAgg', k)
           IN  /\ b.OpenLenFt
                    = Plus(a.OpenLenFt,
                           Measure(0, Abs(AtEntity.Radius * SubtendedAngle(AtEntity))
                                      * unitToFt))
               /\ b.PerimeterFt = a.PerimeterFt
               /\ b.AreaFt2 = a.AreaFt2]_vars

\* The candidate tags in the order of their priority.
TagPriority ==
    << <<78, 65, 77, 69>>, <<82, 79, 79, 77>>, <<90, 79, 78, 69>>,
       <<76, 65, 66, 69, 76>>, <<84, 73, 84, 76, 69>> >>

\* The attributes of the list that carry the p-th candidate tag and a text
\* that is not blank.
Carrying(attrs, p) ==
    {i \in 1..Len(attrs) :
        /\ SameFolded(Trim(attrs[i].tag), TagPriority[p])
        /\ ~Blank(attrs[i].text)}

\* C22: the name read from the attributes of a planner placement is the
\* text of an attribute under the candidate tag of highest priority among
\* those that carry text, whatever the order of the attributes, and names
\* the zone; with no such attribute the zone has the placement's type name.
C22_TagPriority ==
    Returned("TryGetPlannerNameFromAttributes") =>
        LET carried == {p \in 1..Len(TagPriority) : Carrying(arg.attrs, p) # {}}
        IN  IF carried = {}
            THEN ret.name = EmptyStr /\ ret.zones[1].Name = StrCh
            ELSE LET best == CHOOSE p \in carried : \A q \in carried : p <= q
                 IN  /\ \E i \in Carrying(arg.attrs, best) : ret.name = Trim(arg.attrs[i].text)
                     /\ ret.zones[1].Name = ret.name

\* A bucket the code reduces categorically.
ReducedCategorically(vals) ==
    vals # << >> /\ Len(ParsedNumbers(vals)) < NumericThreshold(Len(vals))

\* How often a value occurs in a bucket, values compared after trimming
\* and under case folding.
Frequency(vals, v) ==
    Cardinality({i \in 1..Len(vals) : SameFolded(Trim(vals[i]), Trim(v))})

\* The same values in every order.
Reorderings(vals) ==
    {w \in [1..Len(vals) -> {vals[i] : i \in 1..Len(vals)}] :
        \A i \in 1..Len(vals) :
            Cardinality({j \in 1..Len(w) : w[j] = vals[i]})
                = Cardinality({j \in 1..Len(vals) : vals[j] = vals[i]})}

\* C23: a bucket reduced categorically is reduced to one of its values of
\* greatest frequency, the least of them in case-insensitive lexical order,
\* and to the same text in whatever order its values were added.
C23_ModeTieBreak ==
    Returned("BuildConfigStringFromBuckets") /\ Len(arg.buckets) = 1
        /\ ReducedCategorically(arg.buckets[1].vals) =>
        LET b == arg.buckets[1]
        IN  /\ \E i \in 1..Len(b.vals) :
                   /\ ret = b.key \o <<61>> \o Trim(b.vals[i])
                   /\ \A j \in 1..Len(b.vals) :
                          \/ Frequency(b.vals, b.vals[i]) > Frequency(b.vals, b.vals[j])
                          \/ /\ Frequency(b.vals, b.vals[i]) = Frequency(b.vals, b.vals[j])
                             /\ CompareIgnoreCase(b.vals[i], b.vals[j]) <= 0
            /\ \A w \in Reorderings(b.vals) :
                   BuildConfigStringFromBuckets(<<[key |-> b.key, vals |-> w]>>) = ret

\* The entities of a block definition that have extents.
Measurable(children) == {i \in 1..Len(children) : children[i].has}

\* The extent along axis a (1: x, 2: y) of the union of their extents.
UnionSpan(children, a) ==
    LET m  == Measurable(children)
        lo == CHOOSE v \in {children[i].min[a] : i \in m} :
                  \A i \in m : v <= children[i].min[a]
        hi == CHOOSE v \in {children[i].max[a] : i \in m} :
                  \A i \in m : v >= children[i].max[a]
    IN  hi - lo

\* C24: the size of a placement is (max, min) of dx * |sx| * f and
\* dy * |sy| * f, with dx and dy the extents of the union of the block
\* definition's entities, and so the same for either sign of a scale
\* factor; it is (0, 0) when no entity of the definition has extents.
C24_BoundingSize ==
    Returned("GetBlockSizeFeet") =>
        IF Measurable(arg.children) = {} THEN ret = [len |-> 0, wid |-> 0]
        ELSE LET x == UnionSpan(arg.children, 1) * Abs(arg.sx) * arg.unit
                 y == UnionSpan(arg.children, 2) * Abs(arg.sy) * arg.unit
             IN  /\ ret.len = MaxOf(x, y)
                 /\ ret.wid = MinOf(x, y)
                 /\ ret = BlockSizeFeetOf(arg.children, -arg.sx, arg.sy, arg.unit)
                 /\ ret = BlockSizeFeetOf(arg.children, arg.sx, -arg.sy, arg.unit)

\* A rotated, mirrored placement of a definition with two entities whose
\* scaled y extent is the larger one.
C24_Witness ==
    /\ Returned("GetBlockSizeFeet")
    /\ Cardinality(Measurable(arg.children)) = 2
    /\ arg.sx < 0
    /\ arg.rotation = 1
    /\ UnionSpan(arg.children, 2) * Abs(arg.sy) > UnionSpan(arg.children, 1) * Abs(arg.sx)
    /\ ret.len > ret.wid
    /\ ret.wid > 0

\* Two zones with the same name, letter case aside, and the same vertices
\* in the same order.
DuplicateZones(z1, z2) == SameFolded(z1.Name, z2.Name) /\ z1.Poly = z2.Poly

\* The zones of a list that no earlier zone of it duplicates, in its order.
RECURSIVE FirstOfEach(_, _)
FirstOfEach(zs, n) ==
    IF n = 0 THEN << >>
    ELSE FirstOfEach(zs, n - 1)
         \o (IF \E j \in 1..(n - 1) : DuplicateZones(zs[j], zs[n])
             THEN << >> ELSE <<zs[n]>>)

\* C25: the list CollectPlannerZones returns holds no two zones with the
\* same name (case-insensitively) and the same vertices; it is the list as
\* built, placement zones before loop zones, without the zones that
\* duplicate an earlier one.
C25_GlobalDeDupe ==
    Returned("CollectPlannerZones") =>
        /\ \A i, j \in 1..Len(ret.outZones) :
               i # j => ~DuplicateZones(ret.outZones[i], ret.outZones[j])
        /\ ret.outZones = FirstOfEach(ret.zones, Len(ret.zones))

\* A call in which a zone is dropped for an earlier one whose name differs
\* in letter case, a zone built between the two is kept, and a loop zone
\* is dropped for a placement zone.
C25_Witness ==
    /\ Returned("CollectPlannerZones")
    /\ \E i, k, j \in 1..Len(ret.zones) :
           /\ i < k /\ k < j
           /\ DuplicateZones(ret.zones[i], ret.zones[j])
           /\ ret.zones[i].Name # ret.zones[j].Name
           /\ ~DuplicateZones(ret.zones[i], ret.zones[k])
           /\ \E o \in 1..Len(ret.outZones) : ret.outZones[o] = ret.zones[k]
    /\ \E i \in 1..LoopOffset(arg), j \in (LoopOffset(arg) + 1)..Len(ret.zones) :
           DuplicateZones(ret.zones[i], ret.zones[j])
    /\ Len(ret.outZones) + 2 <= Len(ret.zones)

\* C26: in the naming of the loops no label index is put into usedLabel
\* twice, a loop that took a label has that label's text for its name, and
\* so no label names two loops, whether taken inside or as the nearest.
C26_LabelConsumedOnce ==
    Returned("CollectPlannerZones") =>
        /\ Len(ret.usedLabel) = Len(LoopsOf(arg))
        /\ \A j, k \in 1..Len(ret.usedLabel) :
               j # k /\ ret.usedLabel[j] > 0 => ret.usedLabel[j] # ret.usedLabel[k]
        /\ \A k \in 1..Len(ret.usedLabel) :
               ret.usedLabel[k] > 0 =>
                   /\ ret.usedLabel[k] \in 1..Len(LabelsOf(arg))
                   /\ LoopName(arg, ret, k) = Trim(LabelsOf(arg)[ret.usedLabel[k]].txt)

\* A loop that holds the anchor of a label an earlier loop took as its
\* nearest one, and is named otherwise.
C26_Witness ==
    /\ Returned("CollectPlannerZones")
    /\ \E j, k \in 1..Len(ret.usedLabel) :
           /\ j < k
           /\ ret.usedLabel[j] > 0
           /\ ~PointInPolygon(LabelsOf(arg)[ret.usedLabel[j]].pos, LoopsOf(arg)[j].Poly)
           /\ PointInPolygon(LabelsOf(arg)[ret.usedLabel[j]].pos, LoopsOf(arg)[k].Poly)
           /\ ret.usedLabel[k] # ret.usedLabel[j]

(***************************************************************************)
(* The same run over placements whose type names and visibility states     *)
(* hold '|': xref-dependent block names hold it, and the key of a VisAgg   *)
(* group is baseName + "||" + vis.                                         *)
(***************************************************************************)
StrTaBar == <<84, 97, 124>>                                 \* "Ta|"

StrBarV1 == <<124, 86, 49>>                                 \* "|V1"

VisBlockRefs ==
    { Placed(StrTaBar, StrFurn, PtInConf, NoExtents, TRUE, StrV1, TRUE, 4, 8, 1, 1),
      Placed(StrTa, StrFurn, PtOutside, NoExtents, TRUE, StrBarV1, TRUE, 2, 4, 1, 1),
      Placed(StrTa, StrFurn, PtInConf, NoExtents, TRUE, StrV1, TRUE, 6, 4, 1, 1),
      Placed(StrTA, StrFurn, PtOutside, NoExtents, TRUE, Strv1, TRUE, 2, 8, 1, 1),
      Placed(StrCh, StrFurn, PtOutside, NoExtents, FALSE, EmptyStr, TRUE, 2, 2, 1, 1),
      Placed(StrConf, StrPlannerPadded, PtInConf, Extents(Pt(0, 0), Pt(8, 8)), FALSE,
             EmptyStr, FALSE, 0, 0, 1, 1) }

SpecVis == InitOn(DrawingsOf(VisBlockRefs)) /\ [][Next]_vars

\* The placements of the pass so far that a VisAgg group stands for: those
\* with its type name and its visibility state, case aside.
MembersOfVis(v) ==
    {i \in VisCounted : /\ SameFolded(processed[i].br.name, v.TableName)
                        /\ SameFolded(processed[i].br.vis, v.Visibility)}

\* C27: the grouping of the visibility rows is injective on the pair (type
\* name, visibility state), case aside, whatever the two strings hold, '|'
\* included: every VisAgg group counts the placements of its own pair and
\* no others, and two placements whose pairs differ are in different groups.
C27_VisGroupingInjective ==
    /\ \A g \in 1..Len(visGrouped) :
           visGrouped[g].TableCount = Cardinality(MembersOfVis(visGrouped[g]))
    /\ \A i \in VisCounted :
           \E g \in 1..Len(visGrouped) : i \in MembersOfVis(visGrouped[g])

RECURSIVE SumOf(_, _)
SumOf(groups, field) ==
    IF groups = << >> THEN 0 ELSE Head(groups)[field] + SumOf(Tail(groups), field)

\* C28: after every step of the pass the counters agree with the groups:
\* totalInserts is the sum of TotalCount over allGrouped and the number of
\* placements processed that are not on the planner layer, dynamicProcessed
\* is the sum of DynamicCount (the dynamic ones among them), visKept is the
\* sum of TableCount over visGrouped, and visKept <= dynamicProcessed <=
\* totalInserts.
C28_CountersConsistent ==
    /\ totalInserts = SumOf(allGrouped, "TotalCount")
    /\ totalInserts = Cardinality(Counted)
    /\ dynamicProcessed = SumOf(allGrouped, "DynamicCount")
    /\ dynamicProcessed = Cardinality({i \in Counted : processed[i].br.dyn})
    /\ visKept = SumOf(visGrouped, "TableCount")
    /\ visKept <= dynamicProcessed
    /\ dynamicProcessed <= totalInserts

\* A pass that skipped a planner placement and counted three others in two
\* groups: one not dynamic, one dynamic without a visibility state and one
\* with; the three counters differ.
C28_Witness ==
    /\ pc = "pass"
    /\ Len(processed) > Cardinality(Counted)
    /\ totalInserts = 3
    /\ Len(allGrouped) = 2
    /\ dynamicProcessed = 2
    /\ visKept = 1
    /\ C28_CountersConsistent

\* The half-open rule: the left and bottom edges are in, the right and top
\* edges are out.
HalfOpen(pt, b) ==
    b.minX <= pt[1] /\ pt[1] < b.maxX /\ b.minY <= pt[2] /\ pt[2] < b.maxY

Max2(a, b) == IF a >= b THEN a ELSE b

Min2(a, b) == IF a <= b THEN a ELSE b

\* Box a has box b on its right, the two sharing a piece of a vertical
\* edge, or above it, sharing a piece of a horizontal edge.
LeftOf(a, b) ==
    a.maxX = b.minX /\ Max2(a.minY, b.minY) < Min2(a.maxY, b.maxY)

Under(a, b) ==
    a.maxY = b.minY /\ Max2(a.minX, b.minX) < Min2(a.maxX, b.maxX)

\* The point is on the edge the two boxes share, its ends included.
OnSharedEdge(pt, a, b) ==
    \/ /\ LeftOf(a, b)
       /\ pt[1] = a.maxX
       /\ Max2(a.minY, b.minY) <= pt[2] /\ pt[2] <= Min2(a.maxY, b.maxY)
    \/ /\ Under(a, b)
       /\ pt[2] = a.maxY
       /\ Max2(a.minX, b.minX) <= pt[1] /\ pt[1] <= Min2(a.maxX, b.maxX)

\* The zones among two boxes that hold the point.
Holding(pt, a, b) == {c \in {a, b} : PointInPolygon(pt, BoxPoly(c))}

\* The boxes that share an edge with the box of the call, the point on it.
SharingWith(pt, a) ==
    {b \in Boxes : OnSharedEdge(pt, a, b) \/ OnSharedEdge(pt, b, a)}

\* C29: on the rectangle (minX,minY), (maxX,minY), (maxX,maxY), (minX,maxY)
\* PointInPolygon is true exactly when minX <= x < maxX and minY <= y <
\* maxY, and a point on the edge two adjacent boxes share is in exactly one
\* of the two.
C29_BoundaryRule ==
    (Returned("PointInPolygon") /\ arg.poly = BoxPoly(arg.box)) =>
        /\ ret = HalfOpen(arg.pt, arg.box)
        /\ \A b \in SharingWith(arg.pt, arg.box) :
               Cardinality(Holding(arg.pt, arg.box, b)) = 1

\* C29, amended: on that rectangle PointInPolygon is true exactly when
\* minX <= x < maxX and minY <= y < maxY, and a point on the edge two
\* adjacent boxes share is in at most one of the two: in the right-hand or
\* upper one when it is below that box's top and left of its right side,
\* and in neither at the top end of a vertical shared edge that is that
\* box's corner, or the right end of a horizontal one.
C29_BoundaryRuleHalfOpen ==
    (Returned("PointInPolygon") /\ arg.poly = BoxPoly(arg.box)) =>
        /\ ret = HalfOpen(arg.pt, arg.box)
        /\ \A b \in SharingWith(arg.pt, arg.box) :
               LET far == IF OnSharedEdge(arg.pt, arg.box, b) THEN b ELSE arg.box
               IN  Holding(arg.pt, arg.box, b) =
                     IF arg.pt[1] < far.maxX /\ arg.pt[2] < far.maxY THEN {far} ELSE {}

\* The call on the right-hand box of two side by side, with the top end of
\* the edge they share: the point is in neither box.
C29_Witness ==
    /\ Returned("PointInPolygon")
    /\ arg.poly = BoxPoly(arg.box)
    /\ \E b \in Boxes :
          /\ LeftOf(b, arg.box)
          /\ b.minY = arg.box.minY /\ b.maxY = arg.box.maxY
          /\ OnSharedEdge(arg.pt, b, arg.box)
          /\ arg.pt[2] = arg.box.maxY
          /\ ~ret
          /\ Holding(arg.pt, arg.box, b) = {}

\* The labels of a call whose text is not blank.
NonBlankLabels(a) == {i \in 1..Len(LabelsOf(a)) : ~Blank(LabelsOf(a)[i].txt)}

\* "Zone " and the two decimal digits of k.
ZoneNumbered(k) == StrZone \o <<48 + (k \div 10), 48 + (k % 10)>>

\* C30: a loop polygon is named 'Zone NN' only when every non-blank label
\* has been taken by an earlier loop polygon, so the loop polygons named by
\* a label are min(number of loop polygons, number of non-blank labels);
\* NN is the position of the polygon among all loop polygons, from 1, and
\* the synthesized names are pairwise distinct and increase in the order of
\* the polygons.
C30_SynthesizedNames ==
    Returned("CollectPlannerZones") =>
        LET n     == Len(LoopsOf(arg))
            u     == ret.usedLabel
            auto  == {k \in 1..n : u[k] = 0}
        IN  /\ Len(u) = n
            /\ \A k \in auto :
                   /\ NonBlankLabels(arg) \subseteq {u[j] : j \in 1..(k - 1)}
                   /\ LoopName(arg, ret, k) = ZoneNumbered(k)
            /\ \A k \in (1..n) \ auto :
                   LoopName(arg, ret, k) = Trim(LabelsOf(arg)[u[k]].txt)
            /\ Cardinality((1..n) \ auto) = Min2(n, Cardinality(NonBlankLabels(arg)))
            /\ \A j \in auto, k \in auto :
                   j < k => CompareOrdinal(LoopName(arg, ret, j), LoopName(arg, ret, k)) < 0

\* Two loop polygons and one label: the first polygon took the label and
\* the second is 'Zone 02'.
C30_Witness ==
    /\ Returned("CollectPlannerZones")
    /\ Cardinality(NonBlankLabels(arg)) = 1
    /\ ret.usedLabel = <<1, 0>>
    /\ LoopName(arg, ret, 2) = StrZone \o <<48, 50>>

=============================================================================
